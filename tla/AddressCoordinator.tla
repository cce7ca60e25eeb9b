--------------------------- MODULE AddressCoordinator ---------------------------
(* The refresh of one building address: DTEKDataCoordinator (coordinator.py)  *)
(* and the comparison baseline of ScheduleUpdates (schedule_updates.py).  A   *)
(* refresh waits for the provider, for the save of the display snapshot, for  *)
(* the first load of the baseline and for its save; everything between two    *)
(* waits is one step.  Home Assistant starts refreshes by its timer, and users*)
(* by a button under a lock of their own: a timer's refresh and a user's may  *)
(* overlap.                                                                   *)
EXTENDS ScheduleChanges

CONSTANTS
    Refreshes,      \* those of the timer, of the button, that may overlap
    Schedules,      \* verified daily schedules the website may publish
    Horizon,        \* bound: the last instant of the clock
    Straddles,      \* may an instant pass while a refresh is under way?
    NoReading, NoGroups, NoTick

Instants == 0..Horizon
Spans    == {s \in Instants \X Instants : s[1] < s[2]}
Records  == [coverage : SUBSET [group : Groups, range : Spans],
             intervals : SUBSET [group : Groups, kind : Kinds, range : Spans]]

(* An outage is published on a day that is published (schedule_from_reading). *)
OutagesCovered(record) ==
    \A i \in record.intervals : \A t \in i.range[1]..(i.range[2] - 1) :
        \E r \in Covered(record, i.group) : r[1] <= t /\ t < r[2]

AddressConstants ==
    /\ Horizon \in Nat /\ Straddles \in BOOLEAN /\ IsFiniteSet(Groups)
    /\ Schedules \subseteq Records /\ \A s \in Schedules : OutagesCovered(s)
    /\ NoSchedule \notin Records /\ NoReading \notin Records
    /\ NoTick \notin 1..(Horizon + 1)

(* RefreshResult: the address with its groups and the schedule, each of which *)
(* may have failed; a schedule may be verified to be unpublished.             *)
Errors  == {"address", "schedule", "both"}
Results == [error : Errors, groups : SUBSET Groups]
             \cup [error : {"none"}, groups : SUBSET Groups,
                   schedule : Schedules \cup {NoReading}]

(* ScheduleUpdates.record, in memory and in its file.                         *)
NewBaseline == [groups |-> NoGroups, schedule |-> NoSchedule]

VARIABLES
    clock,
    phase,      \* of each refresh: "idle", "fetching", "snapshot", "loading", "saving"
    change,     \* what it is about to save and to report
    addressOk,  \* address_success
    groups,     \* address_data["schedule_groups"]
    schedule,   \* the last schedule verified together with the address
    ready,      \* notifications_ready
    tick,       \* when the schedule clock next wakes the entities
    loaded, baseline, baselineFile,
    known,      \* what the reports up to now tell of every instant,
    knownFile,  \*   and what those up to the last save of the baseline do
    lastOk,     \* did the last refresh to be through with the provider succeed?
    overlapped  \* did one begin while another was at the provider or its snapshot?

refreshVars  == <<phase, change>>
sharedVars   == <<addressOk, groups, schedule, ready, tick>>
baselineVars == <<loaded, baseline, baselineFile>>
ghostVars    == <<known, knownFile, lastOk, overlapped>>
vars == <<clock, refreshVars, sharedVars, baselineVars, ghostVars>>

NoChange == [baseline |-> NewBaseline, current |-> NoSchedule, changed |-> {}, now |-> 0]
Unknown == [g \in Groups |-> [t \in Instants |-> {"unverified"}]]

Init ==
    /\ clock = 0
    /\ phase = [r \in Refreshes |-> "idle"] /\ change = [r \in Refreshes |-> NoChange]
    /\ addressOk = FALSE /\ groups = {} /\ schedule = NoReading /\ ready = FALSE
    /\ tick = NoTick
    /\ loaded = FALSE /\ baseline = NewBaseline /\ baselineFile = NewBaseline
    /\ known = Unknown /\ knownFile = Unknown /\ lastOk = TRUE /\ overlapped = FALSE

-------------------------------------------------------------------------------
(* schedule_record: only dated coverage can confirm a change.                 *)
ScheduleRecord(reading) ==
    IF reading = NoReading \/ reading.coverage = {} THEN NoSchedule ELSE reading

(* next_schedule_boundary; midnight stands at the horizon.                    *)
Boundaries(reading) ==
    IF reading = NoReading THEN {}
    ELSE UNION {{c.range[1], c.range[2]} : c \in reading.coverage \cup reading.intervals}

NextBoundary(reading, now) == Min({t \in Boundaries(reading) : t > now} \cup {Horizon + 1})

(* _schedule_clock *)
ScheduleClock == tick' = NextBoundary(IF ready' THEN schedule' ELSE NoReading, clock)

(* The end of a refresh: the clock is set again.                              *)
EndRefresh(r) ==
    /\ phase' = [phase EXCEPT ![r] = "idle"] /\ change' = [change EXCEPT ![r] = NoChange]
    /\ ScheduleClock

(* The rest of ScheduleUpdates.update once the baseline is loaded: it reads   *)
(* what the coordinator shows now.                                            *)
Compare(r, old) ==
    LET current == IF ready' THEN ScheduleRecord(schedule') ELSE NoSchedule
        updated == [groups |-> groups',
                    schedule |-> IF current = NoSchedule THEN old.schedule
                                 ELSE Remember(old.schedule, current, clock)]
    IN  IF ~addressOk' \/ groups' = {} \/ updated = old
        THEN EndRefresh(r)
        ELSE /\ phase' = [phase EXCEPT ![r] = "saving"]
             /\ change' = [change EXCEPT ![r] =
                   [baseline |-> updated, current |-> current, now |-> clock,
                    changed |-> ChangedGroups(old.schedule, current, clock)]]
             /\ UNCHANGED tick

(* update(), as the last part of every refresh.                               *)
Update(r) ==
    IF loaded
    THEN Compare(r, baseline)
    ELSE /\ phase' = [phase EXCEPT ![r] = "loading"]
         /\ UNCHANGED <<change, tick>>

-------------------------------------------------------------------------------
(* Refreshes that still read or write the address, the schedule and the flag. *)
AtProvider(s) == phase[s] \in {"fetching", "snapshot"}

(* _async_update_data and the beginning of _fetch_data.                       *)
StartStaysReady(r) ==                                              \* mutated
    /\ phase[r] = "idle"
    /\ phase' = [phase EXCEPT ![r] = "fetching"]
    /\ change' = [change EXCEPT ![r].now = clock]
    /\ addressOk' = FALSE
    /\ overlapped' = \E s \in Refreshes \ {r} : AtProvider(s)
    /\ UNCHANGED <<clock, ready, groups, schedule, tick,
                   baselineVars, known, knownFile, lastOk>>

Start(r) ==
    /\ phase[r] = "idle"
    /\ phase' = [phase EXCEPT ![r] = "fetching"]
    /\ change' = [change EXCEPT ![r].now = clock]
    /\ ready' = FALSE /\ addressOk' = FALSE
    /\ overlapped' = \E s \in Refreshes \ {r} : AtProvider(s)
    /\ UNCHANGED <<clock, groups, schedule, tick,
                   baselineVars, known, knownFile, lastOk>>

(* The provider's answer, and for a failed or an unpublished schedule the     *)
(* whole end of the refresh: UpdateFailed, or data without a schedule.        *)
FetchFails(r, result) ==
    /\ phase[r] = "fetching" /\ result.error # "none"
    /\ IF result.error = "schedule"
       THEN addressOk' = TRUE /\ groups' = result.groups
       ELSE UNCHANGED <<addressOk, groups>>
    /\ lastOk' = FALSE
    /\ UNCHANGED <<clock, ready, schedule, baselineVars, known, knownFile, overlapped>>
    /\ Update(r)

FetchUnpublished(r, result) ==
    /\ phase[r] = "fetching" /\ result.error = "none" /\ result.schedule = NoReading
    /\ addressOk' = TRUE /\ groups' = result.groups /\ schedule' = NoReading
    /\ lastOk' = TRUE
    /\ UNCHANGED <<clock, ready, baselineVars, known, knownFile, overlapped>>
    /\ Update(r)

(* A verified schedule is kept as the display snapshot before it is live.  It *)
(* describes the days from the one on which the refresh began.                *)
FetchVerified(r, result) ==
    /\ phase[r] = "fetching" /\ result.error = "none" /\ result.schedule # NoReading
    /\ CoveredGroups(result.schedule) \subseteq result.groups
    /\ \A c \in result.schedule.coverage : c.range[2] > change[r].now
    /\ addressOk' = TRUE /\ groups' = result.groups /\ schedule' = result.schedule
    /\ phase' = [phase EXCEPT ![r] = "snapshot"]
    /\ UNCHANGED <<clock, change, ready, tick, baselineVars, ghostVars>>

(* The save may fail: the data is live all the same.                          *)
SnapshotSaved(r) ==
    /\ phase[r] = "snapshot"
    /\ ready' = TRUE
    /\ lastOk' = TRUE
    /\ UNCHANGED <<clock, addressOk, groups, schedule, baselineVars, known, knownFile, overlapped>>
    /\ Update(r)

(* An unreadable baseline starts a new comparison.                            *)
BaselineLoaded(r) ==
    /\ phase[r] = "loading"
    /\ loaded' = TRUE
    /\ \/ baseline' = baselineFile /\ known' = knownFile
       \/ UNCHANGED <<baseline, known>>
    /\ UNCHANGED <<clock, addressOk, groups, schedule, ready,
                   baselineFile, knownFile, lastOk, overlapped>>
    /\ Compare(r, baseline')

(* What a listener knows of each instant after the verification of `current`. *)
Learned(current) ==
    IF current = NoSchedule THEN known
    ELSE [g \in Groups |-> [t \in Instants |->
            IF g \notin CoveredGroups(current) THEN {"unverified"}
            ELSE IF At(current, g, t) # {"unverified"} THEN At(current, g, t)
            ELSE known[g][t]]]

(* Only a saved change is reported.                                           *)
BaselineSaved(r) ==
    /\ phase[r] = "saving"
    /\ baseline' = change[r].baseline
    /\ known' = Learned(change[r].current)
    /\ baselineFile' = baseline' /\ knownFile' = known'
    /\ UNCHANGED <<clock, addressOk, groups, schedule, ready,
                   loaded, lastOk, overlapped>>
    /\ EndRefresh(r)

BaselineSaveFails(r) ==
    /\ phase[r] = "saving"
    /\ UNCHANGED <<clock, addressOk, groups, schedule, ready,
                   baselineVars, ghostVars>>
    /\ EndRefresh(r)

-------------------------------------------------------------------------------
(* _clock_tick: the entities are told to look at the clock again.             *)
ClockTickOnce ==                                                   \* mutated
    /\ tick # NoTick /\ clock >= tick
    /\ tick' = NoTick
    /\ UNCHANGED <<clock, refreshVars, addressOk, groups, schedule, ready,
                   baselineVars, ghostVars>>

ClockTick ==
    /\ tick # NoTick /\ clock >= tick
    /\ UNCHANGED <<clock, refreshVars, addressOk, groups, schedule, ready,
                   baselineVars, ghostVars>>
    /\ ScheduleClock

(* Time passes, not beyond a tick that is due.                                *)
Pass ==
    /\ clock < Horizon /\ (tick # NoTick => clock < tick)
    /\ Straddles \/ \A r \in Refreshes : phase[r] = "idle"
    /\ clock' = clock + 1
    /\ UNCHANGED <<refreshVars, sharedVars, baselineVars, ghostVars>>

(* Home Assistant stops and starts: a baseline being written may have landed, *)
(* a restored snapshot is for display only and makes nothing live.            *)
Restart ==
    /\ phase' = [r \in Refreshes |-> "idle"] /\ change' = [r \in Refreshes |-> NoChange]
    /\ addressOk' = FALSE /\ groups' = {} /\ schedule' = NoReading /\ ready' = FALSE
    /\ tick' = NoTick
    /\ loaded' = FALSE /\ baseline' = NewBaseline
    /\ known' = Unknown
    /\ \/ UNCHANGED <<baselineFile, knownFile>>
       \/ \E r \in {x \in Refreshes : phase[x] = "saving"} :
             baselineFile' = change[r].baseline /\ knownFile' = Learned(change[r].current)
    /\ lastOk' = TRUE /\ overlapped' = FALSE
    /\ UNCHANGED clock

Refresh(r) ==
    \/ Start(r) \/ SnapshotSaved(r) \/ BaselineLoaded(r) \/ BaselineSaved(r)
    \/ BaselineSaveFails(r)
    \/ \E result \in Results :
          FetchFails(r, result) \/ FetchUnpublished(r, result) \/ FetchVerified(r, result)

Next == (\E r \in Refreshes : Refresh(r)) \/ ClockTick \/ Pass \/ Restart

Spec == Init /\ [][Next]_vars

-------------------------------------------------------------------------------
(* Properties *)

Baselines == [groups : {NoGroups} \cup SUBSET Groups, schedule : {NoSchedule} \cup Records]

TypeOK ==
    /\ clock \in Instants
    /\ \A r \in Refreshes :
          /\ phase[r] \in {"idle", "fetching", "snapshot", "loading", "saving"}
          /\ change[r].changed \subseteq Groups /\ change[r].now \in Instants
          /\ change[r].baseline \in Baselines
    /\ addressOk \in BOOLEAN /\ ready \in BOOLEAN /\ loaded \in BOOLEAN
    /\ lastOk \in BOOLEAN /\ overlapped \in BOOLEAN
    /\ groups \subseteq Groups
    /\ schedule \in Schedules \cup {NoReading}
    /\ tick \in {NoTick} \cup 1..(Horizon + 1)
    /\ {baseline, baselineFile} \subseteq Baselines

(* The schedule is announced as ready for notifications only while the last   *)
(* refresh succeeded and verified both the address and this schedule, and no  *)
(* new one is under way ("A fresh address and schedule are both required for  *)
(* notifications", _async_update_data), whatever older refreshes still save   *)
(* of the baseline.  Two refreshes that overlap before that revoke and        *)
(* restore each other's flag and replace each other's schedule; the next one  *)
(* that begins alone puts right all they left.                                *)
ReadyIsVerified ==
    ready /\ ~overlapped =>
        /\ lastOk /\ addressOk /\ schedule # NoReading
        /\ CoveredGroups(schedule) \subseteq groups
        /\ \A r \in Refreshes : ~AtProvider(r)

(* A group that was known before has news: a verified instant to come differs *)
(* from all that was reported of it, or is verified for the first time.       *)
News(current, g, now) ==
    /\ \E t \in Instants : known[g][t] # {"unverified"}
    /\ \E t \in now..(Horizon - 1) : At(current, g, t) \notin {{"unverified"}, known[g][t]}

(* A change is reported exactly for the groups that have news, however polls, *)
(* missing days, failing saves and restarts interleave ("Repeated polls,      *)
(* group reordering, temporary errors and recovery of the same data do not    *)
(* generate changes", docs/SCHEDULES.md).                                     *)
ReportsAreNews ==
    \A r \in Refreshes :
        phase[r] = "saving" =>
            change[r].changed = {g \in Groups : News(change[r].current, g, change[r].now)}

(* Between polls no entity sleeps through a boundary of the live schedule.    *)
ClockCovers ==
    (ready /\ \A r \in Refreshes : phase[r] = "idle") =>
        /\ tick # NoTick
        /\ \A t \in Boundaries(schedule) : ~(clock < t /\ t < tick)

===============================================================================
