---------------------------- MODULE ScheduledChecks ----------------------------
(* The read-only checks of the reading sources of linked accounts:            *)
(* AccountChecks (account_checks.py).  A minute timer runs the check that is  *)
(* due, a button runs one at once; both queue for one lock.  A check saves its*)
(* reservation in a durable journal, reads the cabinet and saves the outcome. *)
(* Everything between two waits is one step.                                  *)
EXTENDS Sequences, SequencesExt, Integers

CONSTANTS
    Accounts,
    CheckDays,      \* of each account: the days its schedule covers, {} if disabled
    LastDay,        \* bound: the days are 1..LastDay, 0 stands for never
    Outcomes,       \* how a check of the cabinet may end: "ready", "blocked", "error"
    HistoryLimit,   \* 20 in the code
    MaxWaiting,     \* bound: ticks, and presses, that wait for the lock
    EarlyPress,     \* may the button be pressed before start() has ended?
    NoAccount, NoRecovery

ASSUME DaysAssumption == LastDay \in Nat \ {0} /\ CheckDays \in [Accounts -> SUBSET (1..LastDay)]
ASSUME OutcomeAssumption == Outcomes \subseteq {"ready", "blocked", "error"} /\ "blocked" \in Outcomes
ASSUME BoundsAssumption == HistoryLimit \in Nat \ {0} /\ MaxWaiting \in Nat /\ EarlyPress \in BOOLEAN

Triggers == {"manual", "scheduled"}
Statuses == {"checking", "ready", "blocked", "error", "interrupted"}

(* The clock distinguishes, on every day, the hours before the selected time  *)
(* (even) and those from it on (odd).                                         *)
Hours == 2..(2 * LastDay + 1)
Day(hour) == hour \div 2
Evening(hour) == hour % 2 = 1

(* A record of the journal: scheduled_day and the latest runs.                *)
NewRecord == [day |-> 0, history |-> <<>>]
NewJournal == [n \in Accounts |-> NewRecord]

VARIABLES
    clock,
    entry,      \* "setup", "recovering", "loaded", "closing", "closed"
    selected,   \* entry.data[CONF_ACCOUNTS]
    failed,     \* _failed
    records,    \* the journal in memory
    file,       \* the journal on the disk
    recovered,  \* the journal start() is saving
    waiting,    \* the queue of the lock
    task,       \* who holds it
    tried,      \* ghost: days for which a scheduled check was reserved
    reads       \* ghost: scheduled reads of the cabinet, for each reserved day

managerVars == <<selected, failed, records, file>>
ghostVars   == <<tried, reads>>
vars == <<clock, entry, managerVars, recovered, waiting, task, ghostVars>>

Idle == [step |-> "idle", trigger |-> "manual", account |-> NoAccount, at |-> 0,
         rest |-> {}, journal |-> NewJournal]

Init ==
    /\ clock = 2 /\ entry = "setup" /\ selected = Accounts /\ failed = FALSE
    /\ records = NewJournal /\ file = NewJournal /\ recovered = NoRecovery
    /\ waiting = <<>> /\ task = Idle
    /\ tried = [n \in Accounts |-> {}]
    /\ reads = [n \in Accounts |-> [d \in 1..LastDay |-> 0]]

-------------------------------------------------------------------------------
Closed == entry \in {"closing", "closed"}

AuthorizedThoughFailed(n) == ~Closed /\ n \in selected              \* mutated

(* _authorize *)
Authorized(n) == ~Closed /\ n \in selected /\ ~failed

(* due: the schedule is compared with the last day reserved, in memory.       *)
Due(n, journal, hour) ==
    /\ Day(hour) \in CheckDays[n] /\ Evening(hour)
    /\ journal[n].day < Day(hour)

LatestUnbounded(history, run) == Append(history, run)               \* mutated

(* The latest runs, and the last one with a new status.                       *)
Latest(history, run) ==
    LET all == Append(history, run)
    IN  IF Len(all) <= HistoryLimit THEN all ELSE Tail(all)

SetLast(history, status) == [history EXCEPT ![Len(history)].status = status]

ReservedAlways(n, trigger, journal, hour) ==                        \* mutated
    [journal EXCEPT ![n] =
        [day |-> Day(hour),
         history |-> Latest(@.history, [trigger |-> trigger, status |-> "checking"])]]

(* The journal with the reservation of a run; only a scheduled one takes the  *)
(* day.                                                                       *)
Reserved(n, trigger, journal, hour) ==
    [journal EXCEPT ![n] =
        [day |-> IF trigger = "scheduled" THEN Day(hour) ELSE @.day,
         history |-> Latest(@.history, [trigger |-> trigger, status |-> "checking"])]]

(* The beginning of _run, up to the save of the reservation.                  *)
Reserve(n, trigger, journal, hour, rest) ==
    /\ task' = [step |-> "reserving", trigger |-> trigger, account |-> n, at |-> hour,
                rest |-> rest, journal |-> Reserved(n, trigger, journal, hour)]
    /\ tried' = IF trigger = "scheduled" THEN [tried EXCEPT ![n] = @ \cup {Day(hour)}] ELSE tried

EndRun == task' = Idle /\ UNCHANGED tried

(* The loop of _tick over the accounts that are left: the next one that is due*)
(* is reserved; an account deselected meanwhile ends the whole tick.          *)
Continue(rest, journal, hour) ==
    LET next == {n \in rest : Due(n, journal, hour)}
    IN  IF Closed \/ next = {}
        THEN EndRun
        ELSE \E n \in next :
                IF Authorized(n) THEN Reserve(n, "scheduled", journal, hour, rest \ {n})
                ELSE EndRun

-------------------------------------------------------------------------------
(* start(): the saved journal is loaded, and what was being checked when the  *)
(* program stopped is marked and saved, without the lock.                     *)
RecoveredDropping(journal) ==                                       \* mutated
    [n \in Accounts |->
        IF \E i \in DOMAIN journal[n].history : journal[n].history[i].status = "checking"
        THEN NewRecord ELSE journal[n]]

Recovered(journal) ==
    [n \in Accounts |->
        [journal[n] EXCEPT !.history =
            [i \in DOMAIN @ |-> IF @[i].status = "checking"
                                THEN [@[i] EXCEPT !.status = "interrupted"] ELSE @[i]]]]

(* The timer is set, and a first tick queues for the lock.                    *)
Started ==
    /\ entry' = "loaded" /\ recovered' = NoRecovery
    /\ waiting' = Append(waiting, [kind |-> "start"])

Load ==
    /\ entry = "setup"
    /\ records' = file
    /\ IF Recovered(file) = file
       THEN Started
       ELSE entry' = "recovering" /\ recovered' = Recovered(file) /\ UNCHANGED waiting
    /\ UNCHANGED <<clock, selected, failed, file, task, ghostVars>>

RecoverySaved ==
    /\ entry = "recovering"
    /\ records' = recovered /\ file' = recovered
    /\ Started
    /\ UNCHANGED <<clock, selected, failed, task, ghostVars>>

(* A journal that cannot be read or saved disables the checks: no timer.  A   *)
(* failing save may have replaced the file already.                           *)
StartFails ==
    /\ entry \in {"setup", "recovering"}
    /\ failed' = TRUE /\ entry' = "loaded" /\ recovered' = NoRecovery
    /\ file' \in {file} \cup ({recovered} \ {NoRecovery})
    /\ UNCHANGED <<clock, selected, records, waiting, task, ghostVars>>

-------------------------------------------------------------------------------
(* A minute timer and the button queue for the lock.  The time of a tick is   *)
(* that of the timer; start()'s own tick takes the time when it has the lock. *)
Queued(kind) == Len(SelectSeq(waiting, LAMBDA w : w.kind = kind))

Fire ==
    /\ entry = "loaded" /\ ~failed /\ Queued("tick") < MaxWaiting
    /\ waiting' = Append(waiting, [kind |-> "tick", at |-> clock])
    /\ UNCHANGED <<clock, entry, managerVars, recovered, task, ghostVars>>

Press(n) ==
    /\ entry = "loaded" \/ (EarlyPress /\ entry \in {"setup", "recovering"})
    /\ n \in selected /\ Queued("manual") < MaxWaiting
    /\ waiting' = Append(waiting, [kind |-> "manual", account |-> n])
    /\ UNCHANGED <<clock, entry, managerVars, recovered, task, ghostVars>>

(* _tick and check_now, with the lock.  The limit of one manual check a minute*)
(* only refuses some of them.                                                 *)
Acquire ==
    /\ task = Idle /\ waiting # <<>>
    /\ waiting' = Tail(waiting)
    /\ LET w == Head(waiting)
           hour == IF w.kind = "tick" THEN w.at ELSE clock
       IN  IF w.kind = "manual"
           THEN IF Authorized(w.account)
                THEN Reserve(w.account, "manual", records, hour, {})
                ELSE EndRun
           ELSE IF failed THEN EndRun ELSE Continue(selected, records, hour)
    /\ UNCHANGED <<clock, entry, managerVars, recovered, reads>>

-------------------------------------------------------------------------------
(* _run: the reservation is on the disk; if the account is still authorized   *)
(* its cabinet is read, else the tick ends and the run stays "checking".      *)
ReservationSaved ==
    /\ task.step = "reserving"
    /\ file' = task.journal /\ records' = task.journal
    /\ IF Authorized(task.account)
       THEN /\ task' = [task EXCEPT !.step = "reading"]
            /\ reads' = IF task.trigger = "scheduled"
                        THEN [reads EXCEPT ![task.account][Day(task.at)] = @ + 1] ELSE reads
       ELSE task' = Idle /\ UNCHANGED reads
    /\ UNCHANGED <<clock, entry, selected, failed, recovered, waiting, tried>>

(* The cabinet answers or times out.  The run is updated in place, in the     *)
(* journal in memory too, unless start() has replaced that one meanwhile.     *)
ReadEnds(outcome) ==
    /\ task.step = "reading"
    /\ outcome = "ready" => Authorized(task.account)
    /\ LET status == IF Closed THEN "interrupted" ELSE outcome
           journal == [task.journal EXCEPT ![task.account].history = SetLast(@, status)]
       IN  /\ task' = [task EXCEPT !.step = "finishing", !.journal = journal]
           /\ records' = IF records = task.journal THEN journal ELSE records
    /\ UNCHANGED <<clock, entry, selected, failed, file, recovered, waiting, ghostVars>>

OutcomeSavedStale ==                                                \* mutated
    /\ task.step = "finishing"
    /\ file' = task.journal /\ records' = task.journal
    /\ Continue(task.rest, file, task.at)
    /\ UNCHANGED <<clock, entry, selected, failed, recovered, waiting, reads>>

(* The outcome is on the disk: a tick goes on with the next account.          *)
OutcomeSaved ==
    /\ task.step = "finishing"
    /\ file' = task.journal /\ records' = task.journal
    /\ Continue(task.rest, task.journal, task.at)
    /\ UNCHANGED <<clock, entry, selected, failed, recovered, waiting, reads>>

(* Either save fails, perhaps after it has replaced the file: every check is  *)
(* refused until the next start.                                              *)
SaveFails ==
    /\ task.step \in {"reserving", "finishing"}
    /\ file' \in {file, task.journal}
    /\ failed' = TRUE /\ task' = Idle
    /\ UNCHANGED <<clock, entry, selected, records, recovered, waiting, ghostVars>>

(* The script that pressed the button is stopped.  A write under way ends     *)
(* before the lock is released, but its journal does not become the manager's.*)
CancelPress ==
    /\ task.step # "idle" /\ task.trigger = "manual"
    /\ file' = IF task.step = "reading" THEN file ELSE task.journal
    /\ task' = Idle
    /\ UNCHANGED <<clock, entry, selected, failed, records, recovered, waiting, ghostVars>>

-------------------------------------------------------------------------------
(* The options no longer contain an account; the reload of the entry follows. *)
Deselect(n) ==
    /\ entry = "loaded" /\ n \in selected
    /\ selected' = selected \ {n}
    /\ UNCHANGED <<clock, entry, failed, records, file, recovered, waiting, task, ghostVars>>

(* close(): the timer stops, and the check under way is awaited.              *)
Close ==
    /\ entry = "loaded" /\ entry' = "closing"
    /\ UNCHANGED <<clock, managerVars, recovered, waiting, task, ghostVars>>

CloseEnds ==
    /\ entry = "closing" /\ task = Idle /\ waiting = <<>>
    /\ entry' = "closed"
    /\ UNCHANGED <<clock, managerVars, recovered, waiting, task, ghostVars>>

NewManager ==
    /\ entry' = "setup" /\ selected' \in SUBSET Accounts /\ failed' = FALSE
    /\ records' = NewJournal /\ recovered' = NoRecovery
    /\ waiting' = <<>> /\ task' = Idle

(* The entry is set up again after it was unloaded.                           *)
Reload ==
    /\ entry = "closed" /\ NewManager
    /\ UNCHANGED <<clock, file, ghostVars>>

(* The program stops at any instant and starts again; a write under way may   *)
(* have replaced the file.                                                    *)
Crash ==
    /\ NewManager
    /\ file' \in {file} \cup ({recovered} \ {NoRecovery})
                \cup (IF task.step \in {"reserving", "finishing"} THEN {task.journal} ELSE {})
    /\ UNCHANGED <<clock, ghostVars>>

Pass ==
    /\ clock + 1 \in Hours /\ clock' = clock + 1
    /\ UNCHANGED <<entry, managerVars, recovered, waiting, task, ghostVars>>

Next ==
    \/ Load \/ RecoverySaved \/ StartFails
    \/ Fire \/ Acquire \/ \E n \in Accounts : Press(n) \/ Deselect(n)
    \/ ReservationSaved \/ OutcomeSaved \/ SaveFails \/ CancelPress
    \/ \E outcome \in Outcomes : ReadEnds(outcome)
    \/ Close \/ CloseEnds \/ Reload \/ Crash \/ Pass

Spec == Init /\ [][Next]_vars

(* The timer fires again and again, time passes, and what was begun ends: the *)
(* cabinet's client and the executor answer or fail, and no step waits for a  *)
(* person.                                                                    *)
FairSpec ==
    /\ Spec
    /\ WF_vars(Load) /\ WF_vars(RecoverySaved) /\ WF_vars(Fire) /\ WF_vars(Acquire)
    /\ WF_vars(ReservationSaved) /\ WF_vars(\E o \in Outcomes : ReadEnds(o))
    /\ WF_vars(OutcomeSaved) /\ WF_vars(CloseEnds) /\ WF_vars(Pass)

-------------------------------------------------------------------------------
Runs == [trigger : Triggers, status : Statuses]

JournalOK(journal) ==
    /\ DOMAIN journal = Accounts
    /\ \A n \in Accounts :
        /\ DOMAIN journal[n] = {"day", "history"} /\ journal[n].day \in 0..LastDay
        /\ DOMAIN journal[n].history \in {1..k : k \in 0..HistoryLimit}
        /\ \A i \in DOMAIN journal[n].history : journal[n].history[i] \in Runs

(* The types of the variables.                                                *)
TypeOK ==
    /\ clock \in Hours /\ failed \in BOOLEAN /\ selected \subseteq Accounts
    /\ entry \in {"setup", "recovering", "loaded", "closing", "closed"}
    /\ JournalOK(records) /\ JournalOK(file) /\ JournalOK(task.journal)
    /\ recovered # NoRecovery => JournalOK(recovered)
    /\ \A i \in DOMAIN waiting : waiting[i].kind \in {"start", "tick", "manual"}
    /\ task.step \in {"idle", "reserving", "reading", "finishing"}
    /\ task.trigger \in Triggers /\ task.account \in Accounts \cup {NoAccount}
    /\ task.at \in Hours \cup {0} /\ task.rest \subseteq Accounts
    /\ tried \in [Accounts -> SUBSET (1..LastDay)]
    /\ reads \in [Accounts -> [1..LastDay -> Nat]]

(* "One check per Kyiv day" (due, line 40), whatever crashes, failing saves,  *)
(* presses and reloads come between: the cabinet is read at most once for a   *)
(* scheduled day.                                                             *)
OncePerDay == \A n \in Accounts, d \in 1..LastDay : reads[n][d] <= 1

(* A reservation that reached the disk is never forgotten by a later write,   *)
(* for "Restart never replays it" (line 215).                                 *)
ReservationsStay == [][\A n \in Accounts : file[n].day <= file'[n].day]_vars

(* "An interrupted scheduled check is marked as such": once the manager has   *)
(* started, a scheduled run is shown as being checked only while it is, unless*)
(* the journal failed (and the whole view is an error) or the account is no   *)
(* longer there.                                                              *)
CheckingMeansRunning ==
    \A n \in selected, i \in 1..HistoryLimit :
        /\ entry = "loaded" /\ ~failed
        /\ i \in DOMAIN records[n].history
        /\ records[n].history[i] = [trigger |-> "scheduled", status |-> "checking"]
        => /\ task.step = "reading" /\ task.account = n /\ task.trigger = "scheduled"
           /\ i = Len(records[n].history)

JournalIsTrue == TypeOK /\ OncePerDay /\ CheckingMeansRunning

(* A schedule is followed: if the manager stays up and its journal works, the *)
(* check of the last day is begun, though presses and other accounts compete  *)
(* for the lock and a press does not count.                                   *)
DueIsChecked ==
    \A n \in Accounts :
        /\ LastDay \in CheckDays[n]
        /\ <>[](entry = "loaded" /\ ~failed /\ n \in selected)
        => <>(LastDay \in tried[n])
===============================================================================
