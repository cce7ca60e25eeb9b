------------------------------- MODULE Reminders -------------------------------
(* Reminders to read the meter (account_reminders.py), for one account: one   *)
(* per reporting window, restored after a restart, not repeated once the user *)
(* dismissed it.  A tick holds the lock while it builds the message, which    *)
(* may ask the cabinet, and while it saves.                                   *)
EXTENDS Integers

CONSTANTS
    MaxPeriod,      \* bound: reporting windows
    MaxStops,       \* bound: restarts and reloads
    NoRecord, NoTask, NoNotice

Periods == 1..MaxPeriod
Windows == [period : Periods, dismissed : BOOLEAN]
Records == {NoRecord} \cup Windows
Tasks   == [step : {"message", "save", "ack"}, period : Periods]

(* What the theorems assume of the constants.                                 *)
ReminderConstants ==
    /\ MaxPeriod \in Nat \ {0} /\ MaxStops \in Nat
    /\ NoRecord \notin Windows /\ NoTask \notin Tasks /\ NoNotice \notin Periods

VARIABLES
    clock,      \* the window, and whether its time of day has come
    enabled,    \* the account's option
    life,       \* "down", "up", "closed" (close() has begun) or "failed"
    record,     \* self.records[key]
    file,       \* the Store
    shown,      \* key in self._shown
    visible,    \* the notification Home Assistant shows, by its window
    task,       \* what holds self._lock
    acks,       \* dismissals whose _acknowledge waits for the lock
    orphan,     \* a save that a closed instance left behind
    unsaved,    \* ghost: the save of a dismissal failed
    stops

instance == <<record, shown, task, acks, unsaved>>
vars == <<clock, enabled, life, record, file, shown, visible, task, acks, orphan, unsaved, stops>>

PeriodOf(r) == IF r = NoRecord THEN 0 ELSE r.period

Init ==
    /\ clock = [period |-> 1, phase |-> "closed"]
    /\ enabled = TRUE /\ life = "down"
    /\ record = NoRecord /\ file = NoRecord
    /\ shown = FALSE /\ visible = NoNotice
    /\ task = NoTask /\ acks = {} /\ orphan = NoRecord /\ unsaved = FALSE
    /\ stops = 0

-------------------------------------------------------------------------------
(* reading_window: five days around the end of a month, each with a time      *)
(* before and after the configured one.  Weeks pass until the next window,    *)
(* with a tick every minute, and no tick lasts that long.                     *)
Pass ==
    /\ clock.phase = "closed" => task = NoTask /\ (life = "up" => ~shown)
    /\ clock' \in
         CASE clock.phase = "closed" -> {[clock EXCEPT !.phase = "early"]}
           [] clock.phase = "early"  -> {[clock EXCEPT !.phase = "due"]}
           [] clock.phase = "due" ->
                {[clock EXCEPT !.phase = "early"]} \cup
                {c \in {[period |-> clock.period + 1, phase |-> "closed"]} : c.period \in Periods}
    /\ UNCHANGED <<enabled, life, instance, file, visible, orphan, stops>>

SetOption ==
    /\ enabled' = ~enabled
    /\ UNCHANGED <<clock, life, instance, file, visible, orphan, stops>>

-------------------------------------------------------------------------------
(* start(), close(), and Home Assistant stopping, which forgets what it shows *)

Start ==
    /\ life = "down"
    /\ life' = "up" /\ record' = file
    /\ shown' = FALSE /\ task' = NoTask /\ acks' = {}
    /\ unsaved' = FALSE
    /\ UNCHANGED <<clock, enabled, file, visible, orphan, stops>>

(* "Losing the duplicate/dismissal ledger must not start a new campaign."     *)
StartFails ==
    /\ life = "down" /\ life' = "failed"
    /\ UNCHANGED <<clock, enabled, instance, file, visible, orphan, stops>>

Close ==
    /\ life = "up" /\ stops < MaxStops
    /\ life' = "closed" /\ stops' = stops + 1
    /\ UNCHANGED <<clock, enabled, instance, file, visible, orphan>>

Saving == task # NoTask /\ task.step \in {"save", "ack"}

CloseAtOnce ==                                                      \* mutated
    /\ life = "closed" /\ life' = "down"
    /\ orphan' = IF Saving THEN record ELSE orphan
    /\ record' = NoRecord /\ shown' = FALSE /\ task' = NoTask /\ acks' = {}
    /\ UNCHANGED <<clock, enabled, file, visible, unsaved, stops>>

(* close() waits for the dismissals, not for a tick of the timer.             *)
CloseEnds ==
    /\ life = "closed" /\ acks = {} /\ (task # NoTask => task.step # "ack")
    /\ life' = "down"
    /\ orphan' = IF Saving THEN record ELSE orphan
    /\ record' = NoRecord /\ shown' = FALSE /\ task' = NoTask
    /\ UNCHANGED <<clock, enabled, file, visible, acks, unsaved, stops>>

Crash ==
    /\ stops < MaxStops /\ stops' = stops + 1
    /\ life' = "down" /\ visible' = NoNotice
    /\ file' \in {file} \cup (IF Saving THEN {record} ELSE {})
                        \cup (IF orphan # NoRecord THEN {orphan} ELSE {})
    /\ record' = NoRecord /\ shown' = FALSE /\ task' = NoTask /\ acks' = {}
    /\ orphan' = NoRecord
    /\ UNCHANGED <<clock, enabled, unsaved>>

(* The disk takes writes in the order they come.                              *)
OrphanLands ==
    /\ orphan # NoRecord
    /\ file' \in {file, orphan} /\ orphan' = NoRecord
    /\ UNCHANGED <<clock, enabled, life, instance, visible, stops>>

-------------------------------------------------------------------------------
(* _tick() *)

Withdraw == shown' = FALSE /\ visible' = NoNotice

WantedAgain == PeriodOf(record) = clock.period \/ clock.phase = "due"  \* mutated

WantedOnce == PeriodOf(record) # clock.period /\ clock.phase = "due"  \* mutated

(* The window's reminder is neither shown nor dismissed, and its time has     *)
(* come or had come before.                                                   *)
Wanted ==
    LET same == PeriodOf(record) = clock.period
    IN  /\ same \/ clock.phase = "due"
        /\ ~(same /\ (shown \/ record.dismissed))

TickWithdrawsItsOwn ==                                              \* mutated
    /\ life = "up" /\ task = NoTask
    /\ IF ~enabled \/ clock.phase = "closed"
       THEN shown /\ Withdraw /\ UNCHANGED task
       ELSE /\ Wanted /\ task' = [step |-> "message", period |-> clock.period]
            /\ UNCHANGED <<shown, visible>>
    /\ UNCHANGED <<clock, enabled, life, record, file, acks, orphan, unsaved, stops>>

Tick ==
    /\ life = "up" /\ task = NoTask
    /\ IF ~enabled \/ clock.phase = "closed"
       THEN Withdraw /\ UNCHANGED task
       ELSE /\ Wanted /\ task' = [step |-> "message", period |-> clock.period]
            /\ UNCHANGED <<shown, visible>>
    /\ UNCHANGED <<clock, enabled, life, record, file, acks, orphan, unsaved, stops>>

ShownEarly ==                                                       \* mutated
    /\ task # NoTask /\ task.step = "message" /\ life = "up"
    /\ record' = [period |-> task.period, dismissed |-> FALSE]
    /\ task' = [task EXCEPT !.step = "save"] /\ shown' = TRUE
    /\ UNCHANGED <<clock, enabled, life, file, visible, acks, orphan, unsaved, stops>>

MessageBuilt ==
    /\ task # NoTask /\ task.step = "message"
    /\ IF life # "up" THEN task' = NoTask /\ UNCHANGED record
       ELSE /\ record' = [period |-> task.period, dismissed |-> FALSE]
            /\ task' = [task EXCEPT !.step = "save"]
    /\ UNCHANGED <<clock, enabled, life, file, shown, visible, acks, orphan, unsaved, stops>>

Saved ==
    /\ task # NoTask /\ task.step = "save" /\ orphan = NoRecord
    /\ file' = record /\ task' = NoTask
    /\ IF life = "up" THEN visible' = task.period /\ shown' = TRUE
       ELSE UNCHANGED <<visible, shown>>
    /\ UNCHANGED <<clock, enabled, life, record, acks, orphan, unsaved, stops>>

(* The save raises, perhaps after it has replaced the file: the next tick     *)
(* tries again.                                                               *)
SaveFails ==
    /\ Saving /\ orphan = NoRecord
    /\ file' \in {file, record} /\ task' = NoTask
    /\ unsaved' = (unsaved \/ task.step = "ack")
    /\ UNCHANGED <<clock, enabled, life, record, shown, visible, acks, orphan, stops>>

-------------------------------------------------------------------------------
(* The user dismisses the notification: noticed when this instance shows it   *)

UserDismisses ==
    /\ visible # NoNotice /\ visible' = NoNotice
    /\ IF life = "up" /\ shown
       THEN /\ shown' = FALSE
            /\ record' = [record EXCEPT !.dismissed = TRUE]
            /\ acks' = acks \cup {record.period}
       ELSE UNCHANGED <<shown, record, acks>>
    /\ UNCHANGED <<clock, enabled, life, file, task, orphan, unsaved, stops>>

(* _acknowledge() gets the lock.                                              *)
Acknowledge ==
    /\ life \in {"up", "closed"} /\ task = NoTask
    /\ \E p \in acks :
        /\ acks' = acks \ {p}
        /\ task' = IF PeriodOf(record) = p THEN [step |-> "ack", period |-> p] ELSE NoTask
    /\ UNCHANGED <<clock, enabled, life, record, file, shown, visible, orphan, unsaved, stops>>

AckSaved ==
    /\ task # NoTask /\ task.step = "ack" /\ orphan = NoRecord
    /\ file' = record /\ task' = NoTask
    /\ UNCHANGED <<clock, enabled, life, record, shown, visible, acks, orphan, unsaved, stops>>

Next ==
    \/ Pass \/ SetOption
    \/ Start \/ StartFails \/ Close \/ CloseEnds \/ Crash \/ OrphanLands
    \/ Tick \/ MessageBuilt \/ Saved \/ SaveFails
    \/ UserDismisses \/ Acknowledge \/ AckSaved

Spec == Init /\ [][Next]_vars

(* The timer ticks, messages are built (their requests time out), writes end  *)
(* and do not fail for ever; the lock is first come, first served.            *)
Fairness ==
    /\ WF_vars(Start) /\ WF_vars(CloseEnds) /\ WF_vars(OrphanLands)
    /\ SF_vars(Tick) /\ WF_vars(MessageBuilt) /\ SF_vars(Saved)
    /\ SF_vars(Acknowledge) /\ WF_vars(AckSaved)

FairSpec == Spec /\ Fairness

-------------------------------------------------------------------------------
(* What is noted, saved and shown is of a window that has come, and only an   *)
(* instance that saved its record shows it.                                   *)
TypeOK ==
    /\ clock \in [period : Periods, phase : {"closed", "early", "due"}]
    /\ life \in {"down", "up", "closed", "failed"} /\ stops \in 0..MaxStops
    /\ {record, file, orphan} \subseteq Records /\ acks \subseteq Periods
    /\ task \in Tasks \cup {NoTask} /\ (task # NoTask => life \in {"up", "closed"})
    /\ \A r \in {record, file, orphan} : PeriodOf(r) <= clock.period
    /\ visible # NoNotice => visible \in Periods /\ visible <= clock.period
    /\ life = "up" /\ shown => record # NoRecord /\ visible = record.period

(* A dismissal that was saved holds for its window, whatever is restarted,    *)
(* saved late or ticks meanwhile: it is neither overwritten nor is the        *)
(* reminder shown again (account_reminders.py:110, :148).                     *)
KeepsDismissal ==
    \A p \in Periods :
      file = [period |-> p, dismissed |-> TRUE]
         => /\ file' # [period |-> p, dismissed |-> FALSE]
            /\ visible' = p => visible = p

DismissalStays == [][KeepsDismissal]_vars

(* A reload waits for the dismissals it has seen: after close() the next      *)
(* instance finds the last one, or what a later window left, unless its save  *)
(* failed (account_reminders.py:98, :110).                                    *)
HandsOver ==
    life = "closed" /\ life' = "down" /\ stops' = stops /\ record # NoRecord
      => (record.dismissed => \/ file = record \/ unsaved
                              \/ PeriodOf(file) > record.period)

ReloadKeepsDismissals == [][HandsOver]_vars

(* In a window whose time has come, an enabled reminder appears, through      *)
(* failing saves and restarts (account_reminders.py:121).                     *)
ReminderAppears ==
    clock.phase = "due" /\ enabled
        ~> \/ visible = clock.period
           \/ PeriodOf(record) = clock.period /\ record.dismissed
           \/ clock.phase # "due" \/ ~enabled \/ life = "failed"

(* Outside of a window the reminder is withdrawn, even one that was built     *)
(* before the window closed and saved after it.                               *)
ReminderEnds ==
    clock.phase = "closed" /\ visible # NoNotice
        ~> visible = NoNotice \/ clock.phase # "closed" \/ life = "failed"
================================================================================
