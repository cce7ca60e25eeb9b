------------------------------ MODULE MeterNotices ------------------------------
(* Notices of a meter's replacement and of its verification                   *)
(* (account_notifications.py), for one account.  A tick saves a copy of the   *)
(* records under the lock and only then adopts and shows it, while the user   *)
(* may dismiss what is shown.                                                 *)
EXTENDS Integers

CONSTANTS
    MaxChanges,     \* bound: replacements of the meter
    MaxYear,        \* bound: years, and years of verification
    MaxStops,       \* bound: restarts and reloads
    NoRow, NoEvent, NoTask

Serials == 0..MaxChanges
Years == 1..MaxYear
Kinds == {"replacement", "verification"}

(* What tells two events of a kind apart.                                     *)
Fingerprints == (Serials \X Serials) \cup (Serials \X Years \X Years)

Notes  == [fingerprint : Fingerprints, dismissed : BOOLEAN]
Events == {NoEvent} \cup Notes
Rows   == [serial : Serials \cup {NoRow}, events : [Kinds -> Events]]
Tasks  == [step : {"tick", "dismissal"}, row : Rows]

(* What the theorems assume of the constants.                                 *)
NoticeConstants ==
    /\ MaxChanges \in Nat /\ MaxYear \in Nat \ {0} /\ MaxStops \in Nat
    /\ NoRow \notin Rows \cup Serials /\ NoEvent \notin Notes /\ NoTask \notin Tasks

VARIABLES
    profile,    \* the cabinet's meter number and year of verification
    year,       \* this year
    options,    \* the kinds of notices that are switched on
    life,       \* "down", "up" or "closed" (close() has begun)
    row,        \* self.records[key]
    file,       \* the Store
    shown,      \* self._shown with self._fingerprints
    visible,    \* what Home Assistant shows
    dismissals, \* self._dismissals
    saving,     \* _save_dismissal tasks that wait for the lock
    task,       \* what holds self._lock
    orphan,     \* a save that a closed instance left behind
    late,       \* ghost: it landed after the next instance had started
    stops

outside == <<profile, year, options>>
vars == <<outside, life, row, file, shown, visible, dismissals, saving, task, orphan, late, stops>>

Nothing == [k \in Kinds |-> NoEvent]

Init ==
    /\ profile = [serial |-> 0, verification |-> MaxYear]
    /\ year = 1 /\ options = Kinds
    /\ life = "down" /\ row = NoRow /\ file = NoRow
    /\ shown = Nothing /\ visible = Nothing
    /\ dismissals = {} /\ saving = {} /\ task = NoTask /\ orphan = NoRow
    /\ late = FALSE /\ stops = 0

-------------------------------------------------------------------------------
(* The cabinet, the calendar and the user's options                           *)

Replace ==
    /\ profile.serial < MaxChanges
    /\ profile' = [profile EXCEPT !.serial = @ + 1]
    /\ UNCHANGED <<year, options>>

NewYear ==
    /\ year < MaxYear /\ year' = year + 1
    /\ UNCHANGED <<profile, options>>

SetOption ==
    /\ \E k \in Kinds : options' = IF k \in options THEN options \ {k} ELSE options \cup {k}
    /\ UNCHANGED <<profile, year>>

Outside ==
    /\ Replace \/ NewYear \/ SetOption
    /\ UNCHANGED <<life, row, file, shown, visible, dismissals, saving, task, orphan, late, stops>>

-------------------------------------------------------------------------------
(* start(), close(), and Home Assistant stopping, which forgets what it shows *)

Forget ==
    /\ row' = NoRow /\ shown' = Nothing /\ dismissals' = {} /\ saving' = {} /\ task' = NoTask

Start ==
    /\ life = "down" /\ life' = "up" /\ row' = file /\ late' = FALSE
    /\ UNCHANGED <<outside, file, shown, visible, dismissals, saving, task, orphan, stops>>

Close ==
    /\ life = "up" /\ stops < MaxStops
    /\ life' = "closed" /\ stops' = stops + 1
    /\ UNCHANGED <<outside, row, file, shown, visible, dismissals, saving, task, orphan, late>>

(* close() waits for what was spawned, not for a tick of its own timer; one   *)
(* that a refresh has spawned may as well end before close() does.            *)
CloseEnds ==
    /\ life = "closed" /\ saving = {} /\ (task # NoTask => task.step = "tick")
    /\ life' = "down"
    /\ orphan' = IF task # NoTask THEN task.row ELSE orphan
    /\ Forget
    /\ UNCHANGED <<outside, file, visible, late, stops>>

Landed(writes) == file' \in {file} \cup (writes \ {NoRow})

Crash ==
    /\ stops < MaxStops /\ stops' = stops + 1
    /\ Landed({orphan} \cup IF task # NoTask THEN {task.row} ELSE {})
    /\ life' = "down" /\ visible' = Nothing /\ orphan' = NoRow
    /\ Forget
    /\ UNCHANGED <<outside, late>>

(* The disk takes writes in the order they come.                              *)
OrphanLands ==
    /\ orphan # NoRow /\ Landed({orphan}) /\ orphan' = NoRow
    /\ late' = (life # "down")
    /\ UNCHANGED <<outside, life, row, shown, visible, dismissals, saving, task, stops>>

-------------------------------------------------------------------------------
(* _tick()                                                                    *)

Noted(fingerprint) == [fingerprint |-> fingerprint, dismissed |-> FALSE]

Replaced(was) ==
    IF was.serial \notin {NoRow, profile.serial} /\ "replacement" \in options
    THEN Noted(<<was.serial, profile.serial>>) ELSE was.events["replacement"]

DueFor(was) ==
    LET event == was.events["verification"]
        fingerprint == <<profile.serial, profile.verification, year>>
    IN  IF profile.verification > year THEN NoEvent
        ELSE IF \/ "verification" \notin options
                \/ event # NoEvent /\ event.fingerprint = fingerprint THEN event
        ELSE Noted(fingerprint)

(* The copy of the records, brought up to date if the cabinet is known.       *)
Updated(current) ==
    LET was == IF row = NoRow THEN [serial |-> NoRow, events |-> Nothing] ELSE row
        seen == IF current
                THEN [serial |-> profile.serial,
                      events |-> [replacement |-> Replaced(was), verification |-> DueFor(was)]]
                ELSE was
    IN  [seen EXCEPT !.events = [k \in Kinds |-> IF k \in options THEN @[k] ELSE NoEvent]]

AllowedAnyway(adopted, k) ==                                        \* mutated
    adopted.events[k] # NoEvent /\ ~adopted.events[k].dismissed

(* The copy is adopted with what a task has meanwhile dismissed.              *)
Allowed(adopted, k) ==
    LET event == adopted.events[k]
    IN  /\ event # NoEvent
        /\ ~event.dismissed
        /\ <<k, event.fingerprint>> \notin dismissals

Show(adopted) ==
    LET allowed == [k \in Kinds |-> IF Allowed(adopted, k)
                                    THEN adopted.events[k].fingerprint ELSE NoEvent]
    IN  shown' = allowed /\ visible' = allowed

TickUnlessSame(current) ==                                          \* mutated
    /\ life = "up" /\ task = NoTask /\ Updated(current) # row
    /\ task' = [step |-> "tick", row |-> Updated(current)]
    /\ UNCHANGED <<outside, life, row, file, shown, visible, dismissals, saving, orphan, late, stops>>

Tick(current) ==
    /\ life = "up" /\ task = NoTask
    /\ IF Updated(current) = row
       THEN Show(row) /\ UNCHANGED task
       ELSE /\ task' = [step |-> "tick", row |-> Updated(current)]
            /\ UNCHANGED <<shown, visible>>
    /\ UNCHANGED <<outside, life, row, file, dismissals, saving, orphan, late, stops>>

Saved ==
    /\ task # NoTask /\ task.step = "tick" /\ orphan = NoRow
    /\ file' = task.row /\ row' = task.row /\ task' = NoTask
    /\ IF life = "up" THEN Show(task.row) ELSE UNCHANGED <<shown, visible>>
    /\ UNCHANGED <<outside, life, dismissals, saving, orphan, late, stops>>

(* The save raises, perhaps after it has replaced the file.                   *)
SaveFails ==
    /\ task # NoTask /\ orphan = NoRow
    /\ Landed({task.row}) /\ task' = NoTask
    /\ UNCHANGED <<outside, life, row, shown, visible, dismissals, saving, orphan, late, stops>>

-------------------------------------------------------------------------------
(* The user dismisses a notification: noticed when this instance shows it     *)

UserDismisses ==
    /\ \E k \in Kinds :
        /\ visible[k] # NoEvent /\ visible' = [visible EXCEPT ![k] = NoEvent]
        /\ IF life = "up" /\ shown[k] # NoEvent
           THEN LET noted == <<k, row.events[k].fingerprint>>
                IN  /\ shown' = [shown EXCEPT ![k] = NoEvent]
                    /\ dismissals' = dismissals \cup {noted}
                    /\ saving' = saving \cup {noted}
           ELSE UNCHANGED <<shown, dismissals, saving>>
    /\ UNCHANGED <<outside, life, row, file, task, orphan, late, stops>>

(* _save_dismissal() gets the lock.                                           *)
SaveDismissal ==
    /\ life \in {"up", "closed"} /\ task = NoTask
    /\ \E s \in saving :
        LET k == s[1]
            event == row.events[k]
        IN  /\ saving' = saving \ {s}
            /\ IF event = NoEvent \/ event.fingerprint # s[2]
               THEN UNCHANGED <<row, task>>
               ELSE /\ row' = [row EXCEPT !.events[k].dismissed = TRUE]
                    /\ task' = [step |-> "dismissal", row |-> row']
    /\ UNCHANGED <<outside, life, file, shown, visible, dismissals, orphan, late, stops>>

DismissalSaved ==
    /\ task # NoTask /\ task.step = "dismissal" /\ orphan = NoRow
    /\ file' = task.row /\ task' = NoTask
    /\ UNCHANGED <<outside, life, row, shown, visible, dismissals, saving, orphan, late, stops>>

Next ==
    \/ Outside
    \/ Start \/ Close \/ CloseEnds \/ Crash \/ OrphanLands
    \/ \E current \in BOOLEAN : Tick(current)
    \/ Saved \/ SaveFails
    \/ UserDismisses \/ SaveDismissal \/ DismissalSaved

Spec == Init /\ [][Next]_vars

(* Ticks come every six hours and after every refresh of the cabinet, which   *)
(* succeeds again and again; writes end and do not fail for ever; the lock is *)
(* first come, first served.                                                  *)
Fairness ==
    /\ WF_vars(Start) /\ WF_vars(CloseEnds) /\ WF_vars(OrphanLands)
    /\ SF_vars(Tick(TRUE)) /\ SF_vars(Saved)
    /\ SF_vars(SaveDismissal) /\ WF_vars(DismissalSaved)

FairSpec == Spec /\ Fairness

-------------------------------------------------------------------------------
(* What an instance shows stands in its records with the same fingerprint, so *)
(* that a dismissal finds the event it is about                               *)
(* (account_notifications.py:102).                                            *)
TypeOK ==
    /\ profile \in [serial : Serials, verification : Years] /\ year \in Years
    /\ options \subseteq Kinds
    /\ life \in {"down", "up", "closed"} /\ stops \in 0..MaxStops
    /\ {row, file, orphan} \subseteq Rows \cup {NoRow}
    /\ task \in Tasks \cup {NoTask} /\ (task # NoTask => life \in {"up", "closed"})
    /\ dismissals \subseteq Kinds \X Fingerprints /\ saving \subseteq dismissals
    /\ \A k \in Kinds :
        life = "up" /\ shown[k] # NoEvent =>
            /\ row # NoRow /\ row.events[k] # NoEvent
            /\ row.events[k].fingerprint = shown[k]

Held(r, k, f) ==
    r # NoRow /\ r.events[k] = [fingerprint |-> f, dismissed |-> TRUE]

(* What the user dismissed is not shown again, by the instance that noticed   *)
(* it even while an older copy is being saved, or by a later one that found   *)
(* it in the file when it started (account_notifications.py:183).             *)
KeepsDismissed ==
    \A k \in Kinds : visible'[k] \notin {NoEvent, visible[k]}
      => LET f == visible'[k]
         IN  <<k, f>> \notin dismissals /\ (Held(file, k, f) => late)

DismissedNoticeStays == [][KeepsDismissed]_vars

(* Memory, the file and the lock agree that nothing is under way.             *)
Settled == row # NoRow /\ file = row /\ task = NoTask /\ orphan = NoRow

(* A meter that is replaced while the notice is switched on is announced,     *)
(* through failing saves and restarts: the old number is not forgotten before *)
(* the event is saved (account_notifications.py:153, :177).                   *)
ReplacementAnnounced ==
    \A new \in Serials : \A old \in 0..(new - 1) :
        Settled /\ row.serial = old /\ profile.serial = new
                /\ "replacement" \in options
            ~> \/ visible["replacement"] = <<old, new>>
               \/ row # NoRow /\ Held(row, "replacement", <<old, new>>)
               \/ <<"replacement", <<old, new>>>> \in dismissals
               \/ "replacement" \notin options \/ profile.serial # new
================================================================================
