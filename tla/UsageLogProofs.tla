--------------------------- MODULE UsageLogProofs ---------------------------
(***************************************************************************)
(* Proofs about UsageLog: its type invariant; that names go with people;   *)
(* that entries expire; that periods hold what they should and that the    *)
(* numbers of a summary add up.                                            *)
(***************************************************************************)
EXTENDS UsageLog, FiniteSetTheorems, WellFoundedInduction, TLAPS

(* An entry is by the one it names, until he goes; what a deletion that is *)
(* under way has not removed came late; what is kept is younger than the   *)
(* retention was at the last purge.                                        *)
EntryKept(e) ==
  /\ e.by = e.name \/ (e.by = Anonymous /\ e.late)
  /\ e.by \in persons \cup {Anonymous}
  /\ e.by = leaving /\ leaving # Anonymous => e.late \/ e \in doomed
  /\ purged # Never => e.at >= purged - Retention
  /\ e.at <= now

LogInv ==
  /\ LogTypeOK
  /\ purged <= now
  /\ party \in Party \cup {NoParty}
  /\ \A e \in events : EntryKept(e)

LEMMA LogInitially == LogInit => LogInv
<1> SUFFICES ASSUME LogInit PROVE LogInv
  OBVIOUS
<1>1. 0 \in Instant
  BY UsageLogAssumption DEF Instant
<1> QED BY <1>1 DEF LogInit, LogInv, LogTypeOK, NoParty, Never

(* What follows from the types of an entry.                                *)
LEMMA EventsAre ==
  ASSUME LogInv, NEW e \in events
  PROVE  /\ e.at \in Instant /\ e.at \in 0..now /\ e.at \in Int
         /\ e.by \in Person \cup {Anonymous} /\ e.name \in Person \cup {Anonymous}
         /\ now \in Int /\ Retention \in Nat /\ Interval \in Nat /\ MaxTime \in Nat
BY UsageLogAssumption DEF LogInv, LogTypeOK, Event, Instant, EntryKept

LEMMA LogTimes ==
  ASSUME LogInv
  PROVE  /\ now \in Instant /\ now \in Nat /\ purged \in Int /\ Retention \in Nat
         /\ Interval \in Nat /\ Never \in Int
BY UsageLogAssumption DEF LogInv, LogTypeOK, Instant, Never

(* A purge, and what a purge that is not yet due leaves.                   *)
LEMMA PurgeKeeps ==
  ASSUME LogInv, UNCHANGED <<now, persons, leaving, doomed>>, events' = Kept, purged' \in {Never, now}
  PROVE  /\ purged' \in Instant \cup {Never} /\ purged' <= now /\ events' \subseteq events
         /\ \A e \in events' : EntryKept(e)'
         /\ \A e \in events' : e.at >= now - Retention - Interval
<1>1. purged' \in Instant \cup {Never} /\ purged' <= now /\ events' \subseteq events
  BY LogTimes DEF Kept, Never
<1>2. ASSUME NEW e \in events' PROVE EntryKept(e)' /\ e.at >= now - Retention - Interval
  <2>1. e \in events /\ EntryKept(e) /\ e.at >= now - Retention
    BY <1>2 DEF Kept, LogInv
  <2>2. e.at >= now - Retention - Interval
    BY <2>1, EventsAre
  <2>3. purged' # Never => e.at >= purged' - Retention
    BY <2>1
  <2> QED BY <2>1, <2>2, <2>3 DEF EntryKept
<1> QED BY <1>1, <1>2

LEMMA BeginEventKeeps ==
  ASSUME LogInv, NEW p, BeginEvent(p)
  PROVE  /\ LogInv'
         /\ \A e \in events' : e.at >= now - Retention - Interval
<1>1. /\ p \in persons \cup {Anonymous} /\ adding' = p
      /\ UNCHANGED <<now, persons, leaving, doomed, party>>
  BY DEF BeginEvent
<1>2. adding' \in Person \cup {Anonymous, Idle}
  BY <1>1 DEF LogInv, LogTypeOK
<1>3. CASE purged # Never /\ now - purged < Interval
  <2>1. UNCHANGED <<events, purged>>
    BY <1>3 DEF BeginEvent, MaybePurge
  <2>2. LogInv'
    BY <1>1, <1>2, <2>1 DEF LogInv, LogTypeOK, EntryKept
  <2>3. ASSUME NEW e \in events PROVE e.at >= now - Retention - Interval
    <3>1. e.at >= purged - Retention
      BY <1>3 DEF LogInv, EntryKept
    <3> QED BY <1>3, <3>1, EventsAre, LogTimes
  <2> QED BY <2>1, <2>2, <2>3
<1>4. CASE ~(purged # Never /\ now - purged < Interval)
  <2>1. events' = Kept /\ purged' = now
    BY <1>4 DEF BeginEvent, MaybePurge
  <2>2. LogTypeOK'
    BY <1>1, <1>2, <2>1, PurgeKeeps DEF LogInv, LogTypeOK
  <2> QED BY <1>1, <2>1, <2>2, PurgeKeeps DEF LogInv
<1> QED BY <1>3, <1>4

LEMMA CommitEventKeeps == ASSUME LogInv, NEW entry \in Entry, CommitEvent(entry) PROVE LogInv'
<1>1. UNCHANGED <<now, persons, purged, leaving, doomed, party>> /\ adding' = Idle
  BY DEF CommitEvent
<1>2. CASE UNCHANGED events
  BY <1>1, <1>2 DEF LogInv, LogTypeOK, EntryKept
<1>3. CASE /\ adding \in persons \cup {Anonymous}
           /\ \E id \in 1..MaxEvents :
                /\ id \notin Ids /\ 1..(id - 1) \subseteq Ids
                /\ events' = events \cup
                     {[id |-> id, by |-> adding, name |-> adding, at |-> now,
                       entry |-> entry, late |-> adding # Anonymous /\ adding = leaving]}
  <2>1. PICK id \in 1..MaxEvents :
                /\ id \notin Ids /\ 1..(id - 1) \subseteq Ids
                /\ events' = events \cup
                     {[id |-> id, by |-> adding, name |-> adding, at |-> now,
                       entry |-> entry, late |-> adding # Anonymous /\ adding = leaving]}
    BY <1>3
  <2>2. PICK d : d = [id |-> id, by |-> adding, name |-> adding, at |-> now,
                      entry |-> entry, late |-> adding # Anonymous /\ adding = leaving]
    OBVIOUS
  <2>3. d \in Event /\ d.id = id /\ events' = events \cup {d}
    BY <1>3, <2>1, <2>2, LogTimes DEF Event, LogInv, LogTypeOK
  <2>4. EntryKept(d)'
    <3>1. d.by = adding /\ d.name = adding /\ d.at = now /\ d.late = (adding # Anonymous /\ adding = leaving)
      BY <2>2
    <3>2. purged # Never => now >= purged - Retention
      BY LogTimes DEF LogInv
    <3>3. d.by = leaving /\ leaving # Anonymous => d.late
      BY <3>1
    <3>4. now <= now
      BY LogTimes
    <3> QED BY <1>1, <1>3, <3>1, <3>2, <3>3, <3>4 DEF EntryKept
  <2>5. \A e \in events : EntryKept(e)'
    BY <1>1 DEF LogInv, EntryKept
  <2>6. \A e, f \in events' : e.id = f.id => e = f
    BY <2>1, <2>3 DEF Ids, LogInv, LogTypeOK
  <2>7. LogTypeOK'
    BY <1>1, <2>3, <2>6 DEF LogInv, LogTypeOK
  <2>8. \A e \in events' : EntryKept(e)'
    BY <2>3, <2>4, <2>5
  <2> QED BY <1>1, <2>7, <2>8 DEF LogInv
<1> QED BY <1>2, <1>3 DEF CommitEvent

LEMMA FewerEntriesKeep ==
  ASSUME LogInv, UNCHANGED <<now, persons, purged, leaving, doomed>>, events' \subseteq events
  PROVE  /\ \A e \in events' : EntryKept(e)'
         /\ events' \subseteq Event /\ \A d, e \in events' : d.id = e.id => d = e
BY DEF LogInv, LogTypeOK, EntryKept

LEMMA BeginLeaveKeeps == ASSUME LogInv, NEW p \in Person, BeginLeave(p) PROVE LogInv'
<1>1. /\ leaving = Anonymous /\ p \in persons /\ leaving' = p
      /\ doomed' = {e \in events : e.by = p}
      /\ UNCHANGED <<now, persons, events, purged, adding, party>>
  BY DEF BeginLeave
<1>2. \A e \in events' : EntryKept(e)'
  BY <1>1 DEF LogInv, EntryKept
<1> QED BY <1>1, <1>2 DEF LogInv, LogTypeOK

(* The entry that an entry of the leaving participant becomes.             *)
Cleared(e) == IF e.by = leaving THEN [e EXCEPT !.by = Anonymous] ELSE e

LEMMA CommitLeaveKeeps == ASSUME LogInv, CommitLeave PROVE LogInv'
<1>1. /\ leaving # Anonymous /\ leaving \in persons /\ persons' = persons \ {leaving}
      /\ leaving' = Anonymous /\ doomed' = {} /\ UNCHANGED <<now, purged, adding, party>>
      /\ events' = {Cleared(e) : e \in events \ doomed}
  BY DEF CommitLeave, LogInv, LogTypeOK, Cleared
<1>2. ASSUME NEW e \in events \ doomed, NEW c, c = Cleared(e)
      PROVE  c \in Event /\ c.id = e.id /\ EntryKept(c)'
  <2>1. e \in Event /\ EntryKept(e)
    BY DEF LogInv, LogTypeOK
  <2>2. CASE e.by = leaving
    <3>1. c = [e EXCEPT !.by = Anonymous]
      BY <1>2, <2>2 DEF Cleared
    <3>2. /\ c \in Event /\ c.id = e.id /\ c.by = Anonymous /\ c.at = e.at /\ c.late = e.late
      BY <2>1, <3>1 DEF Event
    <3>3. e.late
      BY <1>1, <2>1, <2>2 DEF EntryKept
    <3>4. EntryKept(c)'
      BY <1>1, <2>1, <3>2, <3>3 DEF EntryKept
    <3> QED BY <3>2, <3>4
  <2>3. CASE e.by # leaving
    <3>1. c = e
      BY <1>2, <2>3 DEF Cleared
    <3>2. EntryKept(e)'
      BY <1>1, <2>1, <2>3 DEF EntryKept
    <3> QED BY <2>1, <3>1, <3>2
  <2> QED BY <2>2, <2>3
<1>3. ASSUME NEW c \in events', NEW d \in events', c.id = d.id PROVE c = d
  <2>1. PICK e \in events \ doomed, f \in events \ doomed : c = Cleared(e) /\ d = Cleared(f)
    BY <1>1
  <2>2. e.id = f.id
    BY <1>2, <1>3, <2>1
  <2>3. e = f
    BY <2>2 DEF LogInv, LogTypeOK
  <2> QED BY <2>1, <2>3
<1>4. ASSUME NEW c \in events' PROVE c \in Event /\ EntryKept(c)'
  <2>1. PICK e \in events \ doomed : c = Cleared(e)
    BY <1>1
  <2> QED BY <1>2, <2>1
<1>5. LogTypeOK'
  BY <1>1, <1>3, <1>4 DEF LogInv, LogTypeOK
<1> QED BY <1>1, <1>4, <1>5 DEF LogInv

LEMMA RestartKeeps == ASSUME LogInv, Restart PROVE LogInv'
<1>1. /\ adding' = Idle /\ leaving' = Anonymous /\ doomed' = {} /\ purged' \in {Never, now}
      /\ events' = Kept /\ UNCHANGED <<now, persons, party>>
  BY DEF Restart
<1>2. purged' \in Instant \cup {Never} /\ purged' <= now /\ events' \subseteq events
  BY <1>1, LogTimes DEF Kept, Never
<1>3. ASSUME NEW e \in events' PROVE EntryKept(e)'
  <2>1. e \in events /\ EntryKept(e) /\ e.at >= now - Retention
    BY <1>1 DEF Kept, LogInv
  <2> QED BY <1>1, <2>1 DEF EntryKept
<1> QED BY <1>1, <1>2, <1>3 DEF LogInv, LogTypeOK

LEMMA TickKeeps == ASSUME LogInv, Tick PROVE LogInv'
<1>1. /\ now < MaxTime /\ now' = now + 1
      /\ UNCHANGED <<persons, events, purged, adding, leaving, doomed, party>>
  BY DEF Tick
<1>2. now' \in Instant /\ purged' <= now'
  BY <1>1, LogTimes, UsageLogAssumption DEF Instant, LogInv
<1>3. ASSUME NEW e \in events PROVE EntryKept(e)'
  <2>1. e.at <= now'
    BY <1>1, EventsAre, LogTimes DEF LogInv, EntryKept
  <2> QED BY <1>1, <2>1 DEF LogInv, EntryKept
<1> QED BY <1>1, <1>2, <1>3 DEF LogInv, LogTypeOK

LEMMA ConfigureKeeps == ASSUME LogInv, NEW period \in Party, Configure(period) PROVE LogInv'
<1>1. /\ party' = period /\ UNCHANGED <<now, persons, events, purged, adding, leaving, doomed>>
      /\ period.end = Never \/ period.start < period.end
  BY DEF Configure
<1>2. period.start \in Instant /\ period.end \in Instant \cup {Never}
  BY UsageLogAssumption DEF Never
<1> QED BY <1>1, <1>2 DEF LogInv, LogTypeOK, EntryKept

LEMMA LogStep == LogInv /\ [LogNext]_logVars => LogInv'
<1> SUFFICES ASSUME LogInv, [LogNext]_logVars PROVE LogInv'
  OBVIOUS
<1>1. ASSUME NEW p \in Person \cup {Anonymous}, BeginEvent(p) PROVE LogInv'
  BY <1>1, BeginEventKeeps
<1>2. ASSUME NEW entry \in Entry, CommitEvent(entry) PROVE LogInv'
  BY <1>2, CommitEventKeeps
<1>3. CASE RejectEvent
  BY <1>3 DEF RejectEvent, LogInv, LogTypeOK, EntryKept
<1>4. ASSUME NEW p \in Person, DeleteEvents(p) PROVE LogInv'
  <2>1. /\ events' \subseteq events
        /\ UNCHANGED <<now, persons, purged, adding, leaving, doomed, party>>
    BY <1>4 DEF DeleteEvents
  <2> QED BY <2>1, FewerEntriesKeep DEF LogInv, LogTypeOK
<1>5. ASSUME NEW p \in Person, BeginLeave(p) PROVE LogInv'
  BY <1>5, BeginLeaveKeeps
<1>6. CASE CommitLeave
  BY <1>6, CommitLeaveKeeps
<1>7. ASSUME NEW period \in Party, Configure(period) PROVE LogInv'
  BY <1>7, ConfigureKeeps
<1>8. CASE Restart
  BY <1>8, RestartKeeps
<1>9. CASE Tick
  BY <1>9, TickKeeps
<1>10. CASE UNCHANGED logVars
  BY <1>10 DEF logVars, LogInv, LogTypeOK, EntryKept
<1> QED BY <1>1, <1>2, <1>3, <1>4, <1>5, <1>6, <1>7, <1>8, <1>9, <1>10 DEF LogNext

(* Every variable keeps its type, and entries are told apart by their ids. *)
THEOREM LogTyped == LogSpec => []LogTypeOK
<1>1. LogInv => LogTypeOK
  BY DEF LogInv
<1> QED BY <1>1, LogInitially, LogStep, PTL DEF LogSpec

(* Entries lose the name of a deleted participant, but for those that were *)
(* written while the deletion was under way.                               *)
THEOREM NamesGo == LogSpec => []NamesGoWithPeople
<1>1. LogInv => NamesGoWithPeople
  BY DEF LogInv, EntryKept, NamesGoWithPeople
<1> QED BY <1>1, LogInitially, LogStep, PTL DEF LogSpec

(* Whenever an entry is added, none is older than retention and interval   *)
(* of the purge allow.                                                     *)
THEOREM OldEntriesExpire == LogSpec => EntriesExpire
<1>1. LogInv /\ [LogNext]_logVars =>
        [\A p \in Person \cup {Anonymous} :
           BeginEvent(p) => \A e \in events' : e.at >= now - Retention - Interval]_logVars
  BY BeginEventKeeps
<1> QED BY <1>1, LogInitially, LogStep, PTL DEF LogSpec, EntriesExpire

-----------------------------------------------------------------------------
(* Periods.                                                                *)

LEMMA MinIs ==
  ASSUME NEW S, S \subseteq Nat, S # {}
  PROVE  Min(S) \in S /\ \A x \in S : Min(S) <= x
<1> DEFINE Less == {p \in Nat \X Nat : p[1] < p[2]}
<1>1. ASSUME NEW f \in [Nat -> Nat], \A n \in Nat : <<f[n + 1], f[n]>> \in Less PROVE FALSE
  <2> DEFINE g == [n \in Nat |-> 0..f[n]]
  <2>1. \A n \in Nat : f[n] \in Nat /\ f[n + 1] \in Nat /\ f[n + 1] < f[n]
    BY <1>1
  <2>2. g \in [Nat -> FiniteSubsetsOf(Nat)]
    BY FS_Interval DEF FiniteSubsetsOf
  <2>3. ASSUME NEW n \in Nat PROVE <<g[n + 1], g[n]>> \in StrictSubsetOrdering(Nat)
    <3>1. PICK k \in Nat, l \in Nat : k = f[n + 1] /\ l = f[n] /\ k < l
      BY <2>1
    <3>2. PICK a, b : a = 0..k /\ b = 0..l
      OBVIOUS
    <3>3. g[n] = b /\ g[n + 1] = a
      BY <3>1, <3>2
    <3>4. l \in b /\ l \notin a /\ a \subseteq b /\ b \subseteq Nat
      <4> HIDE DEF g
      <4> QED BY <3>1, <3>2
    <3> HIDE DEF g
    <3>5. a \in SUBSET Nat /\ b \in SUBSET Nat /\ a \subseteq b /\ a # b
      BY <3>4
    <3>6. <<a, b>> \in StrictSubsetOrdering(Nat)
      BY <3>5 DEF StrictSubsetOrdering
    <3> QED BY <3>3, <3>6
  <2> HIDE DEF g
  <2>4. IsWellFoundedOn(StrictSubsetOrdering(Nat), FiniteSubsetsOf(Nat))
    BY FS_StrictSubsetOrderingWellFounded
  <2> QED BY <2>2, <2>3, <2>4 DEF IsWellFoundedOn
<1>2. IsWellFoundedOn(Less, Nat)
  BY <1>1 DEF IsWellFoundedOn
<1>3. PICK m \in S : \A y \in S : ~(<<y, m>> \in Less)
  BY <1>2, WFMin
<1>4. ASSUME NEW y \in S PROVE m <= y
  <2>1. m \in Nat /\ y \in Nat /\ ~(<<y, m>> \in Less)
    BY <1>3
  <2>2. ~(y < m)
    BY <2>1
  <2> QED BY <2>1, <2>2
<1>5. \E x \in S : \A y \in S : x <= y
  BY <1>4
<1> QED BY <1>5 DEF Min

(* An entry is from the first midnight of a day on if it is of that day or *)
(* a later one.                                                            *)
LEMMA MidnightIs ==
  ASSUME NEW day \in Nat, NEW t \in Instant
  PROVE  /\ Midnight(day) \in Nat
         /\ t >= Midnight(day) <=> LocalDay[t] >= day
<1> DEFINE S == {s \in DOMAIN LocalDay : LocalDay[s] >= day} \cup {MaxTime + 1}
<1>1. MaxTime \in Nat /\ DOMAIN LocalDay = 0..(MaxTime + 1)
  BY UsageLogAssumption
<1>2. S \subseteq 0..(MaxTime + 1) /\ S # {} /\ t \in 0..MaxTime
  BY <1>1 DEF Instant
<1>3. \A s \in 0..(MaxTime + 1) : LocalDay[s] \in Nat
  BY UsageLogAssumption
<1>4. \A s \in 0..(MaxTime + 1) : s <= t => LocalDay[s] <= LocalDay[t]
  BY <1>1, <1>2, UsageLogAssumption
<1>5. S \subseteq Nat
  BY <1>1, <1>2
<1>6. PICK m : m = Midnight(day)
  OBVIOUS
<1>7. m \in S /\ \A x \in S : m <= x
  BY <1>2, <1>5, <1>6, MinIs DEF Midnight
<1>8. ASSUME t >= m PROVE LocalDay[t] >= day
  <2>1. m \in 0..(MaxTime + 1) /\ LocalDay[m] >= day
    BY <1>1, <1>2, <1>7, <1>8
  <2>2. m <= t
    BY <1>2, <1>8, <2>1
  <2>3. LocalDay[m] <= LocalDay[t] /\ LocalDay[t] \in Nat /\ LocalDay[m] \in Nat
    BY <1>1, <1>2, <1>3, <1>4, <2>1, <2>2
  <2> QED BY <2>1, <2>3
<1>9. ASSUME LocalDay[t] >= day PROVE t >= m
  <2>1. t \in S
    BY <1>1, <1>2, <1>9
  <2> QED BY <1>2, <1>5, <1>7, <2>1
<1> QED BY <1>5, <1>6, <1>7, <1>8, <1>9

LEMMA PeriodsAre ==
  ASSUME LogInv, NEW from \in Nat, NEW to \in Nat
  PROVE  Period(from, to) = {e \in events : LocalDay[e.at] \in from..to}
<1>1. Midnight(from) # Never /\ Midnight(to + 1) # Never
  <2>1. 0 \in Instant
    BY UsageLogAssumption DEF Instant
  <2> QED BY <2>1, MidnightIs DEF Never
<1>2. ASSUME NEW e \in events
      PROVE  e.at >= Midnight(from) /\ e.at < Midnight(to + 1) <=> LocalDay[e.at] \in from..to
  <2>1. e.at \in Instant /\ e.at \in Nat /\ LocalDay[e.at] \in Nat
    BY EventsAre, UsageLogAssumption DEF Instant
  <2>2. Midnight(to + 1) \in Nat /\ (e.at >= Midnight(to + 1) <=> LocalDay[e.at] >= to + 1)
    BY <2>1, MidnightIs
  <2>3. Midnight(from) \in Nat /\ (e.at >= Midnight(from) <=> LocalDay[e.at] >= from)
    BY <2>1, MidnightIs
  <2> QED BY <2>1, <2>2, <2>3
<1> QED BY <1>1, <1>2 DEF Period, Window

LEMMA DaysHold == LogInv => PeriodsAreDays
<1>s. {LocalDay[t] : t \in Instant} \subseteq Nat
  BY UsageLogAssumption DEF Instant
<1> SUFFICES ASSUME LogInv, NEW from \in Nat, NEW to \in Nat
             PROVE  Custom(from, to).events = {e \in events : LocalDay[e.at] \in from..to \cup to..from}
  BY <1>s DEF PeriodsAreDays
<1>1. CASE from <= to
  <2>1. Custom(from, to).events = Period(from, to)
    BY <1>1 DEF Custom, Ordered
  <2>2. \A d \in Nat : d \in from..to \cup to..from <=> d \in from..to
    BY <1>1
  <2>3. \A e \in events : LocalDay[e.at] \in Nat
    BY EventsAre, UsageLogAssumption DEF Instant
  <2> QED BY <2>1, <2>2, <2>3, PeriodsAre
<1>2. CASE ~(from <= to)
  <2>1. Custom(from, to).events = Period(to, from)
    BY <1>2 DEF Custom, Ordered
  <2>2. \A d \in Nat : d \in from..to \cup to..from <=> d \in to..from
    BY <1>2
  <2>3. \A e \in events : LocalDay[e.at] \in Nat
    BY EventsAre, UsageLogAssumption DEF Instant
  <2> QED BY <2>1, <2>2, <2>3, PeriodsAre
<1> QED BY <1>1, <1>2

LEMMA PartyHolds == LogInv => PartySplitsTime
<1> SUFFICES ASSUME LogInv, party # NoParty
             PROVE  /\ BeforeParty.events \cap DuringParty.events = {}
                    /\ party.end = Never /\ party.start < now =>
                         {e \in events : e.at < now} \subseteq BeforeParty.events \cup DuringParty.events
  BY DEF PartySplitsTime
<1>1. party.start \in Int /\ party.start # Never
  BY UsageLogAssumption DEF LogInv, Instant, Never
<1>2. BeforeParty.events = {e \in events : e.at < party.start}
  BY <1>1 DEF BeforeParty, Window, Never
<1>3. DuringParty.events = {e \in events : e.at >= party.start /\ (PartyEnd # Never => e.at < PartyEnd)}
  BY <1>1 DEF DuringParty, Window
<1>4. \A e \in events : e.at \in Int
  BY EventsAre
<1>5. BeforeParty.events \cap DuringParty.events = {}
  BY <1>1, <1>2, <1>3, <1>4
<1>6. ASSUME party.end = Never, NEW e \in events, e.at < now
      PROVE  e \in BeforeParty.events \cup DuringParty.events
  <2>1. PartyEnd = now
    BY <1>6 DEF PartyEnd
  <2> QED BY <1>1, <1>2, <1>3, <1>4, <1>6, <2>1
<1> QED BY <1>5, <1>6

(* Entries are numbered, so they are finitely many.                        *)
LEMMA EntriesFinite == LogInv => IsFiniteSet(events)
<1> SUFFICES ASSUME LogInv PROVE IsFiniteSet(events)
  OBVIOUS
<1>1. MaxEvents \in Nat /\ IsFiniteSet(1..MaxEvents)
  BY UsageLogAssumption, FS_Interval
<1>2. [e \in events |-> e.id] \in Injection(events, 1..MaxEvents)
  BY DEF LogInv, LogTypeOK, Event, Injection, IsInjective
<1> QED BY <1>1, <1>2, FS_Injection

(* Whatever a participant did, he did at most as many searches as there    *)
(* are entries of them.                                                    *)
LEMMA FewerUsers ==
  ASSUME LogInv, NEW S, S \subseteq events
  PROVE  Cardinality(ActiveUsers(S)) <= Cardinality(S)
<1>1. IsFiniteSet(events)
  BY EntriesFinite
<1>2. IsFiniteSet(S)
  BY <1>1, FS_Subset
<1>3. IsFiniteSet({e.by : e \in S}) /\ Cardinality({e.by : e \in S}) <= Cardinality(S)
  <2>1. [e \in S |-> e.by] \in Surjection(S, {e.by : e \in S})
    BY DEF Surjection
  <2> QED BY <1>2, <2>1, FS_Surjection
<1>4. Cardinality(ActiveUsers(S)) <= Cardinality({e.by : e \in S}) /\ IsFiniteSet(ActiveUsers(S))
  BY <1>3, FS_Subset DEF ActiveUsers
<1>5. Cardinality(ActiveUsers(S)) \in Nat /\ Cardinality({e.by : e \in S}) \in Nat /\ Cardinality(S) \in Nat
  BY <1>2, <1>3, <1>4, FS_CardinalityType
<1> QED BY <1>3, <1>4, <1>5

LEMMA RankingsHold == LogInv => RankingsCountOthers
<1> SUFFICES ASSUME LogInv PROVE RankingsCountOthers
  OBVIOUS
<1>1. ASSUME NEW p \in Person, \A e \in events : p \in e.entry.players => e.by = p
      PROVE  p \notin {s.player : s \in SelectedPlayers(events)}
  <2>1. SelectionsOf(events, p) = {}
    BY <1>1 DEF SelectionsOf
  <2>2. \A s \in SelectedPlayers(events) : SelectionsOf(events, s.player) # {}
    BY DEF SelectedPlayers
  <2> QED BY <2>1, <2>2
<1>2. ASSUME NEW s \in SelectedPlayers(events) PROVE s.searchers <= s.selections
  <2>1. PICK p \in Person : /\ s.selections = Cardinality(SelectionsOf(events, p))
                            /\ s.searchers = Cardinality(ActiveUsers(SelectionsOf(events, p)))
    BY <1>2 DEF SelectedPlayers
  <2>2. SelectionsOf(events, p) \subseteq events
    BY DEF SelectionsOf
  <2> QED BY <2>1, <2>2, FewerUsers
<1>3. ASSUME NEW t \in TopGames(events) PROVE t.users <= t.searches
  <2>1. PICK g : /\ t.searches = Cardinality(Searches(events, g))
                 /\ t.users = Cardinality(ActiveUsers(Searches(events, g)))
    BY <1>3 DEF TopGames
  <2>2. Searches(events, g) \subseteq events
    BY DEF Searches
  <2> QED BY <2>1, <2>2, FewerUsers
<1> QED BY <1>1, <1>2, <1>3 DEF RankingsCountOthers

-----------------------------------------------------------------------------
(* Sums.  MapThenSumSet takes the elements of a finite set one by one.     *)
(* What a function w says of every part of the set is their sum if it is   *)
(* nothing for the empty part and what one element adds for the others: a  *)
(* least part on which they differ cannot be.                              *)

SumsUp(w, g, S) ==
  /\ w[{}] = 0
  /\ \A U \in SUBSET S : \A x \in U : w[U] = g[x] + w[U \ {x}]

OneByOne(it, g, S) ==
  it = [s \in SUBSET S |-> IF s = {} THEN 0
                           ELSE LET x == CHOOSE y \in s : TRUE IN g[x] + it[s \ {x}]]

LEMMA SumsAreUnique ==
  ASSUME NEW S, IsFiniteSet(S), NEW g, NEW w, SumsUp(w, g, S),
         NEW it, OneByOne(it, g, S)
  PROVE  it[S] = w[S]
<1> DEFINE B == {U \in SUBSET S : it[U] # w[U]}
<1> SUFFICES ASSUME B # {} PROVE FALSE
  OBVIOUS
<1>1. B \subseteq FiniteSubsetsOf(S)
  BY FS_FiniteSubsetsOfFinite
<1>2. IsWellFoundedOn(StrictSubsetOrdering(S), FiniteSubsetsOf(S))
  BY FS_StrictSubsetOrderingWellFounded
<1>3. PICK U \in B : \A V \in B : ~(<<V, U>> \in StrictSubsetOrdering(S))
  <2> HIDE DEF B
  <2> QED BY <1>1, <1>2, WFMin
<1>4. U \in SUBSET S /\ it[U] # w[U]
  OBVIOUS
<1>5. U # {}
  BY <1>4 DEF OneByOne, SumsUp
<1>6. PICK x : x = CHOOSE y \in U : TRUE
  OBVIOUS
<1>7. x \in U
  BY <1>5, <1>6
<1>8. it[U] = g[x] + it[U \ {x}]
  <2>1. \A s \in SUBSET S : it[s] = IF s = {} THEN 0
          ELSE LET z == CHOOSE y \in s : TRUE IN g[z] + it[s \ {z}]
    BY DEF OneByOne
  <2> QED BY <1>4, <1>5, <1>6, <2>1
<1>9. w[U] = g[x] + w[U \ {x}]
  BY <1>4, <1>7 DEF SumsUp
<1>10. it[U \ {x}] # w[U \ {x}]
  BY <1>4, <1>8, <1>9
<1>11. U \ {x} \in B
  BY <1>4, <1>10
<1>12. <<U \ {x}, U>> \in StrictSubsetOrdering(S)
  BY <1>4, <1>7 DEF StrictSubsetOrdering
<1> QED BY <1>3, <1>11, <1>12

LEMMA SumsGoOneByOne ==
  ASSUME NEW S, NEW g, NEW w \in [SUBSET S -> Nat], SumsUp(w, g, S)
  PROVE  OneByOne(w, g, S)
<1>1. ASSUME NEW s \in SUBSET S
      PROVE  w[s] = IF s = {} THEN 0
                    ELSE LET x == CHOOSE y \in s : TRUE IN g[x] + w[s \ {x}]
  BY DEF SumsUp
<1> QED BY <1>1 DEF OneByOne

(* What is counted element by element and what is counted together.        *)
PartsAre(E, S, key, g) ==
  IsFiniteSet(E) /\ IsFiniteSet(S) /\ \A x \in S : g[x] = Cardinality({e \in E : key[e] = x})

CountIn(E, S, key) == [U \in SUBSET S |-> Cardinality({e \in E : key[e] \in U})]

LEMMA PartsSumUp ==
  ASSUME NEW E, NEW S, NEW key, NEW g, PartsAre(E, S, key, g)
  PROVE  CountIn(E, S, key) \in [SUBSET S -> Nat] /\ SumsUp(CountIn(E, S, key), g, S)
<1> USE DEF PartsAre
<1> DEFINE w == [U \in SUBSET S |-> Cardinality({e \in E : key[e] \in U})]
<1>1. \A T : {e \in E : key[e] \in T} \in SUBSET E
  OBVIOUS
<1>2. ASSUME NEW U \in SUBSET S PROVE Cardinality({e \in E : key[e] \in U}) \in Nat
  BY FS_Subset, FS_CardinalityType
<1>3. w[{}] = 0
  <2>1. {e \in E : key[e] \in {}} = {}
    OBVIOUS
  <2> QED BY <2>1, FS_EmptySet
<1>4. ASSUME NEW U \in SUBSET S, NEW x \in U PROVE w[U] = g[x] + w[U \ {x}]
  <2>1. PICK A, B, C : /\ A = {e \in E : key[e] = x}
                       /\ B = {e \in E : key[e] \in U \ {x}}
                       /\ C = {e \in E : key[e] \in U}
    OBVIOUS
  <2>2. A \cup B = C /\ A \cap B = {} /\ A \subseteq E /\ B \subseteq E
    BY <2>1
  <2>3. IsFiniteSet(A) /\ IsFiniteSet(B)
    BY <2>2, FS_Subset
  <2>4. Cardinality(C) = Cardinality(A) + Cardinality(B) - Cardinality(A \cap B)
    BY <2>2, <2>3, FS_Union
  <2>5. Cardinality(A \cap B) = 0 /\ Cardinality(A) \in Nat /\ Cardinality(B) \in Nat
    BY <2>2, <2>3, FS_EmptySet, FS_CardinalityType
  <2>6. w[U] = Cardinality(C) /\ w[U \ {x}] = Cardinality(B) /\ g[x] = Cardinality(A)
    BY <2>1
  <2> QED BY <2>4, <2>5, <2>6
<1>5. w \in [SUBSET S -> Nat]
  BY <1>2
<1> HIDE DEF w
<1>6. SumsUp(w, g, S)
  BY <1>3, <1>4 DEF SumsUp
<1>7. w = CountIn(E, S, key)
  BY DEF w, CountIn
<1> QED BY <1>5, <1>6, <1>7

(* The sum of what falls into each part is what falls into any.            *)
LEMMA PartsAddUp ==
  ASSUME NEW E, NEW S, NEW key, NEW g, PartsAre(E, S, key, g)
  PROVE  /\ \E it : OneByOne(it, g, S)
         /\ \A it : OneByOne(it, g, S) => it[S] = Cardinality({e \in E : key[e] \in S})
<1> DEFINE w == CountIn(E, S, key)
<1>1. w \in [SUBSET S -> Nat] /\ SumsUp(w, g, S)
  BY PartsSumUp
<1>2. w[S] = Cardinality({e \in E : key[e] \in S})
  BY DEF CountIn
<1> HIDE DEF w
<1>3. OneByOne(w, g, S)
  BY <1>1, SumsGoOneByOne
<1>4. IsFiniteSet(S)
  BY DEF PartsAre
<1> QED BY <1>1, <1>2, <1>3, <1>4, SumsAreUnique

-----------------------------------------------------------------------------
(* Days, types and persons are such parts.                                 *)

LEMMA MaxIs ==
  ASSUME NEW S, S \subseteq Nat, S # {}, NEW b \in Nat, \A x \in S : x <= b
  PROVE  Max(S) \in S /\ \A x \in S : x <= Max(S)
<1> DEFINE T == {b - x : x \in S}
<1>1. T \subseteq Nat /\ T # {}
  <2>1. ASSUME NEW x \in S PROVE b - x \in Nat
    <3>1. x \in Nat /\ x <= b
      OBVIOUS
    <3> QED BY <3>1
  <2> QED BY <2>1
<1>2. Min(T) \in T /\ \A y \in T : Min(T) <= y
  <2> HIDE DEF T
  <2> QED BY <1>1, MinIs
<1>3. PICK m \in S : Min(T) = b - m
  BY <1>2
<1>4. ASSUME NEW x \in S PROVE m >= x
  <2>1. b - m <= b - x
    BY <1>2, <1>3
  <2> QED BY <2>1
<1>5. \E x \in S : \A y \in S : x >= y
  BY <1>4
<1>6. Max(S) \in S /\ \A y \in S : Max(S) >= y
  BY <1>5 DEF Max
<1> QED BY <1>6

(* A summary's days and entries: what is shown falls on the days shown.    *)
Fits(S, days) ==
  /\ S \subseteq events
  /\ days[1] \in Nat /\ days[2] \in Nat
  /\ \A e \in S : LocalDay[e.at] \in days[1]..days[2]

LEMMA DateRangeFits ==
  ASSUME LogInv, NEW S, S \subseteq events, NEW day \in Nat
  PROVE  Fits(S, DateRange(S, day))
<1>1. CASE S = {}
  BY <1>1 DEF Fits, DateRange
<1>2. CASE S # {}
  <2>1. PICK D : D = DaysOf(S)
    OBVIOUS
  <2>2. PICK b \in Nat : b = LocalDay[MaxTime]
    BY UsageLogAssumption
  <2>3. ASSUME NEW e \in S PROVE LocalDay[e.at] \in Nat /\ LocalDay[e.at] <= b
    <3>1. e.at \in 0..MaxTime /\ MaxTime \in Nat
      BY EventsAre, UsageLogAssumption DEF Instant
    <3>2. PICK t \in 0..MaxTime : t = e.at
      BY <3>1
    <3>3. t <= MaxTime /\ t \in DOMAIN LocalDay /\ MaxTime \in DOMAIN LocalDay
      BY <3>1, UsageLogAssumption
    <3>4. LocalDay[t] \in Nat /\ LocalDay[t] <= LocalDay[MaxTime]
      BY <3>3, UsageLogAssumption
    <3> QED BY <2>2, <3>2, <3>4
  <2>4. D \subseteq Nat /\ D # {} /\ \A d \in D : d <= b
    BY <1>2, <2>1, <2>3 DEF DaysOf
  <2>5. /\ Min(D) \in D /\ \A d \in D : Min(D) <= d
        /\ Max(D) \in D /\ \A d \in D : d <= Max(D)
    BY <2>4, MinIs, MaxIs
  <2>6. \A e \in S : LocalDay[e.at] \in D
    BY <2>1 DEF DaysOf
  <2>7. DateRange(S, day) = <<Min(D), Max(D)>>
    BY <1>2, <2>1 DEF DateRange
  <2>8. PICK lo, hi : lo = Min(D) /\ hi = Max(D)
    OBVIOUS
  <2>9. lo \in Nat /\ hi \in Nat
    BY <2>4, <2>5, <2>8
  <2>10. ASSUME NEW e \in S PROVE LocalDay[e.at] \in lo..hi
    <3>1. PICK d \in D : d = LocalDay[e.at]
      BY <2>6
    <3>2. d \in Nat /\ lo <= d /\ d <= hi
      BY <2>4, <2>5, <2>8
    <3> QED BY <2>9, <3>1, <3>2
  <2> QED BY <2>7, <2>8, <2>9, <2>10 DEF Fits
<1> QED BY <1>1, <1>2

LEMMA DuringFits ==
  ASSUME LogInv, party # NoParty
  PROVE  Fits(DuringParty.events, DuringParty.days)
<1>1. party.start \in Instant /\ PartyEnd \in Instant
  <2>1. party \in Party /\ now \in Instant
    BY DEF LogInv, LogTypeOK
  <2>2. party \in [start : Instant, end : Instant \cup {-1}]
    BY <2>1, UsageLogAssumption
  <2> QED BY <2>1, <2>2 DEF PartyEnd, Never
<1>2. PICK s \in Instant, t \in Instant : s = party.start /\ t = PartyEnd
  BY <1>1
<1>3. s \in Nat /\ t \in Nat /\ s \in DOMAIN LocalDay /\ t \in DOMAIN LocalDay
  BY UsageLogAssumption DEF Instant
<1>4. LocalDay[s] \in Nat /\ LocalDay[t] \in Nat
  BY <1>3, UsageLogAssumption
<1>5. DuringParty.events = {e \in events : e.at >= s /\ e.at < t}
  BY <1>2, <1>3 DEF DuringParty, Window, Never
<1>6. DuringParty.days = <<LocalDay[s], LocalDay[t]>>
  BY <1>2 DEF DuringParty
<1>7. ASSUME NEW e \in events, e.at >= s, e.at < t
      PROVE  LocalDay[e.at] \in LocalDay[s]..LocalDay[t]
  <2>1. PICK u \in Instant : u = e.at
    BY EventsAre
  <2>2. u \in Nat /\ u \in DOMAIN LocalDay
    BY UsageLogAssumption DEF Instant
  <2>3. s <= u /\ u <= t
    BY <1>3, <1>7, <2>1, <2>2
  <2>4. LocalDay[u] \in Nat /\ LocalDay[s] <= LocalDay[u] /\ LocalDay[u] <= LocalDay[t]
    BY <1>3, <2>2, <2>3, UsageLogAssumption
  <2> QED BY <1>4, <2>1, <2>4
<1> QED BY <1>4, <1>5, <1>6, <1>7 DEF Fits

LEMMA SelectionsFit ==
  ASSUME LogInv, NEW selection \in Selections
  PROVE  Fits(selection.events, selection.days)
<1>1. \A t \in Instant : LocalDay[t] \in Nat
  BY UsageLogAssumption DEF Instant
<1>2. CASE selection = All
  <2>1. LocalDay[now] \in Nat
    BY <1>1 DEF LogInv, LogTypeOK
  <2>2. Fits(events, DateRange(events, LocalDay[now]))
    BY <2>1, DateRangeFits
  <2> QED BY <1>2, <2>2 DEF All
<1>3. CASE party # NoParty /\ selection = BeforeParty
  <2>1. party.start \in Instant
    <3>1. party \in Party
      BY <1>3 DEF LogInv
    <3> QED BY <3>1, UsageLogAssumption
  <2>2. PICK S : S = Window(Never, party.start)
    OBVIOUS
  <2>3. S \subseteq events
    BY <2>2 DEF Window
  <2>4. LocalDay[party.start] \in Nat
    BY <1>1, <2>1
  <2>5. Fits(S, DateRange(S, LocalDay[party.start]))
    BY <2>3, <2>4, DateRangeFits
  <2> QED BY <1>3, <2>2, <2>5 DEF BeforeParty
<1>4. CASE party # NoParty /\ selection = DuringParty
  BY <1>4, DuringFits
<1>5. ASSUME NEW t \in Instant, selection = Custom(LocalDay[0], LocalDay[t])
      PROVE  Fits(selection.events, selection.days)
  <2>1. PICK a \in Nat, b \in Nat : a = LocalDay[0] /\ b = LocalDay[t]
    <3>1. 0 \in Instant
      BY UsageLogAssumption DEF Instant
    <3> QED BY <1>1, <3>1
  <2>2. PICK c \in Nat, d \in Nat : Ordered(a, b) = <<c, d>>
    BY DEF Ordered
  <2>3. selection.events = Period(c, d) /\ selection.days = <<c, d>>
    BY <1>5, <2>1, <2>2 DEF Custom
  <2>4. Period(c, d) = {e \in events : LocalDay[e.at] \in c..d}
    BY PeriodsAre
  <2> QED BY <2>3, <2>4 DEF Fits
<1> QED BY <1>2, <1>3, <1>4, <1>5 DEF Selections

LEMMA DaysAddUp ==
  ASSUME LogInv, NEW selection \in Selections
  PROVE  MapThenSumSet(LAMBDA day : Daily(selection)[day], DOMAIN Daily(selection))
           = Cardinality(selection.events)
<1>1. PICK S, a, b, daily : /\ S = selection.events /\ daily = Daily(selection)
                            /\ a = selection.days[1] /\ b = selection.days[2]
  OBVIOUS
<1>2. S \subseteq events /\ a \in Nat /\ b \in Nat /\ \A e \in S : LocalDay[e.at] \in a..b
  BY <1>1, SelectionsFit DEF Fits
<1>3. daily = [day \in a..b |-> Cardinality({e \in S : LocalDay[e.at] = day})]
  BY <1>1 DEF Daily
<1>4. PICK key : key = [e \in S |-> LocalDay[e.at]]
  OBVIOUS
<1>5. PartsAre(S, a..b, key, daily)
  <2>1. IsFiniteSet(S) /\ IsFiniteSet(a..b)
    BY <1>2, EntriesFinite, FS_Subset, FS_Interval
  <2>2. ASSUME NEW x \in a..b PROVE daily[x] = Cardinality({e \in S : key[e] = x})
    <3>1. {e \in S : key[e] = x} = {e \in S : LocalDay[e.at] = x}
      BY <1>4
    <3> QED BY <1>3, <3>1
  <2> QED BY <2>1, <2>2 DEF PartsAre
<1>6. {e \in S : key[e] \in a..b} = S
  BY <1>2, <1>4
<1>7. PICK f : f = CHOOSE it : OneByOne(it, daily, a..b)
  OBVIOUS
<1>8. f[a..b] = Cardinality(S)
  <2>1. PICK T : T = a..b
    OBVIOUS
  <2>2. PartsAre(S, T, key, daily)
    BY <1>5, <2>1
  <2>3. /\ \E it : OneByOne(it, daily, T)
        /\ \A it : OneByOne(it, daily, T) => it[T] = Cardinality({e \in S : key[e] \in T})
    BY <2>2, PartsAddUp
  <2>4. OneByOne(f, daily, T)
    BY <1>7, <2>1, <2>3
  <2>5. f[T] = Cardinality({e \in S : key[e] \in T})
    BY <2>3, <2>4
  <2> QED BY <1>6, <2>1, <2>5
<1>9. MapThenSumSet(LAMBDA day : daily[day], a..b) = f[a..b]
  BY <1>7 DEF MapThenSumSet, MapThenFoldSet, OneByOne
<1>10. DOMAIN daily = a..b
  BY <1>3
<1> QED BY <1>1, <1>8, <1>9, <1>10

LEMMA TypesAddUp ==
  ASSUME LogInv, NEW S, S \subseteq events
  PROVE  MapThenSumSet(LAMBDA type : EventCount(S, type), EventType) = Cardinality(S)
<1>1. PICK key, g : /\ key = [e \in S |-> e.entry.type]
                    /\ g = [type \in EventType |-> EventCount(S, type)]
  OBVIOUS
<1>2. PartsAre(S, EventType, key, g)
  <2>1. IsFiniteSet(S) /\ IsFiniteSet(EventType)
    <3>1. IsFiniteSet({"page_view"} \cup {"find_players_search"} \cup {"group_games_search"})
      BY FS_Singleton, FS_Union
    <3> QED BY <3>1, EntriesFinite, FS_Subset DEF EventType
  <2>2. ASSUME NEW x \in EventType PROVE g[x] = Cardinality({e \in S : key[e] = x})
    <3>1. {e \in S : key[e] = x} = {e \in S : e.entry.type = x}
      BY <1>1
    <3> QED BY <1>1, <3>1 DEF EventCount
  <2> QED BY <2>1, <2>2 DEF PartsAre
<1>3. {e \in S : key[e] \in EventType} = S
  <2>1. \A e \in S : e.entry \in Entry
    BY DEF LogInv, LogTypeOK, Event
  <2>2. \A e \in S : e.entry.type \in EventType
    BY <2>1, UsageLogAssumption
  <2> QED BY <1>1, <2>2
<1> DEFINE Goes(it) == it =
        [s \in SUBSET EventType |-> IF s = {} THEN 0
           ELSE LET x == CHOOSE y \in s : TRUE IN EventCount(S, x) + it[s \ {x}]]
<1>4. ASSUME NEW it PROVE OneByOne(it, g, EventType) <=> Goes(it)
  <2>1. ASSUME NEW s \in SUBSET EventType, s # {}
        PROVE  g[CHOOSE y \in s : TRUE] = EventCount(S, CHOOSE y \in s : TRUE)
    <3>1. (CHOOSE y \in s : TRUE) \in EventType
      BY <2>1
    <3> QED BY <1>1, <3>1
  <2>2. [s \in SUBSET EventType |-> IF s = {} THEN 0
           ELSE LET x == CHOOSE y \in s : TRUE IN EventCount(S, x) + it[s \ {x}]]
      = [s \in SUBSET EventType |-> IF s = {} THEN 0
           ELSE LET x == CHOOSE y \in s : TRUE IN g[x] + it[s \ {x}]]
    BY <2>1
  <2>3. OneByOne(it, g, EventType) <=> it =
          [s \in SUBSET EventType |-> IF s = {} THEN 0
             ELSE LET x == CHOOSE y \in s : TRUE IN g[x] + it[s \ {x}]]
    BY DEF OneByOne
  <2> QED BY <2>2, <2>3
<1>5. PICK f : f = CHOOSE it : Goes(it)
  OBVIOUS
<1>6. /\ \E it : OneByOne(it, g, EventType)
      /\ \A it : OneByOne(it, g, EventType) =>
           it[EventType] = Cardinality({e \in S : key[e] \in EventType})
  BY <1>2, PartsAddUp
<1>7. f[EventType] = Cardinality({e \in S : key[e] \in EventType})
  <2>1. PICK it : OneByOne(it, g, EventType)
    BY <1>6
  <2> HIDE DEF Goes
  <2>2. Goes(it)
    BY <1>4, <2>1
  <2>3. Goes(f)
    BY <1>5, <2>2
  <2>4. OneByOne(f, g, EventType)
    BY <1>4, <2>3
  <2> QED BY <1>6, <2>4
<1>8. MapThenSumSet(LAMBDA type : EventCount(S, type), EventType) = f[EventType]
  BY <1>5 DEF MapThenSumSet, MapThenFoldSet
<1> QED BY <1>3, <1>7, <1>8

LEMMA UsersAddUp ==
  ASSUME LogInv, NEW S, S \subseteq events
  PROVE  MapThenSumSet(LAMBDA p : TotalOf(S, p), ActiveUsers(S)) <= Cardinality(S)
<1>1. PICK P, key, g : /\ P = ActiveUsers(S)
                       /\ key = [e \in S |-> e.by]
                       /\ g = [p \in P |-> TotalOf(S, p)]
  OBVIOUS
<1>2. IsFiniteSet(S)
  BY EntriesFinite, FS_Subset
<1>3. PartsAre(S, P, key, g)
  <2>1. IsFiniteSet(P)
    <3>1. IsFiniteSet({e.by : e \in S})
      <4>1. key \in Surjection(S, {e.by : e \in S})
        BY <1>1 DEF Surjection
      <4> QED BY <1>2, <4>1, FS_Surjection
    <3>2. P \subseteq {e.by : e \in S}
      BY <1>1 DEF ActiveUsers
    <3> QED BY <3>1, <3>2, FS_Subset
  <2>2. ASSUME NEW x \in P PROVE g[x] = Cardinality({e \in S : key[e] = x})
    <3>1. {e \in S : key[e] = x} = {e \in S : e.by = x}
      BY <1>1
    <3> QED BY <1>1, <3>1 DEF TotalOf
  <2> QED BY <1>2, <2>1, <2>2 DEF PartsAre
<1> DEFINE Goes(it) == it =
        [s \in SUBSET P |-> IF s = {} THEN 0
           ELSE LET x == CHOOSE y \in s : TRUE IN TotalOf(S, x) + it[s \ {x}]]
<1>4. ASSUME NEW it PROVE OneByOne(it, g, P) <=> Goes(it)
  <2>1. ASSUME NEW s \in SUBSET P, s # {}
        PROVE  g[CHOOSE y \in s : TRUE] = TotalOf(S, CHOOSE y \in s : TRUE)
    <3>1. (CHOOSE y \in s : TRUE) \in P
      BY <2>1
    <3> QED BY <1>1, <3>1
  <2>2. [s \in SUBSET P |-> IF s = {} THEN 0
           ELSE LET x == CHOOSE y \in s : TRUE IN TotalOf(S, x) + it[s \ {x}]]
      = [s \in SUBSET P |-> IF s = {} THEN 0
           ELSE LET x == CHOOSE y \in s : TRUE IN g[x] + it[s \ {x}]]
    BY <2>1
  <2>3. OneByOne(it, g, P) <=> it =
          [s \in SUBSET P |-> IF s = {} THEN 0
             ELSE LET x == CHOOSE y \in s : TRUE IN g[x] + it[s \ {x}]]
    BY DEF OneByOne
  <2> QED BY <2>2, <2>3
<1>5. PICK f : f = CHOOSE it : Goes(it)
  OBVIOUS
<1>6. /\ \E it : OneByOne(it, g, P)
      /\ \A it : OneByOne(it, g, P) => it[P] = Cardinality({e \in S : key[e] \in P})
  BY <1>3, PartsAddUp
<1>7. f[P] = Cardinality({e \in S : key[e] \in P})
  <2>1. PICK it : OneByOne(it, g, P)
    BY <1>6
  <2> HIDE DEF Goes
  <2>2. Goes(it)
    BY <1>4, <2>1
  <2>3. Goes(f)
    BY <1>5, <2>2
  <2>4. OneByOne(f, g, P)
    BY <1>4, <2>3
  <2> QED BY <1>6, <2>4
<1>8. MapThenSumSet(LAMBDA p : TotalOf(S, p), P) = f[P]
  BY <1>5 DEF MapThenSumSet, MapThenFoldSet
<1>9. Cardinality({e \in S : key[e] \in P}) <= Cardinality(S)
  <2>1. {e \in S : key[e] \in P} \subseteq S
    OBVIOUS
  <2> QED BY <1>2, <2>1, FS_Subset
<1> QED BY <1>1, <1>7, <1>8, <1>9

(* Each entry is shown on one day and under one type, whatever is          *)
(* selected.                                                               *)
LEMMA EntriesHold == LogInv => EntriesShowOnce
<1> SUFFICES ASSUME LogInv, NEW selection \in Selections
             PROVE  LET S == selection.events
                        daily == Daily(selection) IN
               /\ MapThenSumSet(LAMBDA day : daily[day], DOMAIN daily) = Cardinality(S)
               /\ MapThenSumSet(LAMBDA type : EventCount(S, type), EventType) = Cardinality(S)
               /\ MapThenSumSet(LAMBDA p : TotalOf(S, p), ActiveUsers(S)) <= Cardinality(S)
  BY DEF EntriesShowOnce
<1>1. PICK S : S = selection.events
  OBVIOUS
<1>2. S \subseteq events
  BY <1>1, SelectionsFit DEF Fits
<1>3. MapThenSumSet(LAMBDA day : Daily(selection)[day], DOMAIN Daily(selection))
        = Cardinality(S)
  BY <1>1, DaysAddUp
<1>4. MapThenSumSet(LAMBDA type : EventCount(S, type), EventType) = Cardinality(S)
  BY <1>2, TypesAddUp
<1>5. MapThenSumSet(LAMBDA p : TotalOf(S, p), ActiveUsers(S)) <= Cardinality(S)
  BY <1>2, UsersAddUp
<1> QED BY <1>1, <1>3, <1>4, <1>5

(* The numbers of a summary fit its period, its days and one another: the  *)
(* days of build_summary add up to the entries selected, the types do, and *)
(* no participant is counted beyond them; with the periods, the party and  *)
(* the rankings this is all that SummariesAddUp says.                      *)
THEOREM NumbersAddUp == LogSpec => []SummariesAddUp
<1>1. LogInv => SummariesAddUp
  BY EntriesHold, DaysHold, PartyHolds, RankingsHold DEF SummariesAddUp
<1> QED BY <1>1, LogInitially, LogStep, PTL DEF LogSpec

=============================================================================
