# A formal model of DTEK Monitor

DTEK Monitor is a custom integration of Home Assistant (`src/custom_components/dtek_monitor/`).
It reads power outage schedules from the public websites of the DTEK grid operators and, for linked
personal accounts, meter data from the operators' cabinets; it can send meter readings to the billing
system after a confirmation. It is one asyncio program: between two `await`s a task runs alone, at an
`await` any other task may run, be cancelled, or the program may stop. The hard behaviour of this code is
therefore what may happen at its awaits, and what is on the disk then. The models here take **one step per
stretch of code between two awaits**.

The directory holds TLA+ modules, the TLC configurations that check them on small instances, and eight modules
of TLAPS proofs (`*_proofs.tla`, one per component or per MC module that puts components side by side). `PROJECT.json` maps every definition to source lines, and lists the runs, the mutants (a
plausible bug for every property, defined next to the definition it alters and marked `\* mutated`), the
hazards and the findings.

File names below are relative to `src/custom_components/dtek_monitor/` unless they start with `docs/`.

## 1. Inventory

| Component | State | Operations | What makes it hard | What makes it correct |
|---|---|---|---|---|
| **Submission of readings**: `account_submission.py`, `_store.py`, `_api.py`, POST in `account_client.py` | drafts, journal in memory and on disk, one lock | prepare, confirm, acknowledge, last attempt, check of a source, close | the POST cannot be repeated or undone; cancelled tasks, power failures, failed `fsync`, unclear answers, rights withdrawn meanwhile | one unsettled attempt per account, known to the disk before the POST; the journal tells the truth; one attempt per confirmation |
| **Local energy references**: `account_energy.py` | reference pairs, faults, 32 tokens, one lock, a queue of sensor reports | preview/accept a change, propose, validate, guard before the POST, observe | reports wait for the lock while the sensor goes on; writes fail; restart after a reset | a reset is never forgotten nor repaired silently; a proposal that is sent is true |
| **Public request gate**: `public_requests.py` | lock, next request, retry instant, failures in a row | run an operation | callers of all addresses share it; cancellation; hints of the server | pauses and spacing as documented; nobody waits for a pause |
| **Public website client**: `dtek_client.py`, `dtek_provider.py` | cookies, page with its token, cached schedule | refresh, update, lookup of addresses, close | overlapping refreshes share a page, answers may be partial, challenged or late | what is called verified is what the website publishes; an operation ends after few requests |
| **Cabinet client**: `account_client.py` | token, style of authorization, blocked routes, two locks | login, read of the account, of meters, of contexts | both locks are held over requests; tokens expire while others wait | a refusal is remembered, the accepted style is found |
| **Address coordinator**: `coordinator.py`, `snapshot.py`, `schedule_updates.py` | address, verified schedule, ready flag, clock, baseline in memory and on disk | timed and manual refresh, clock tick, restore | overlapping refreshes, a poll across midnight, failing saves | the flag stands for a verified schedule; exactly the news are reported |
| **Schedules**: `schedule.py`, `schedule_changes.py`, `schedule_events.py`, `schedule_status.py` | none (pure) | parse, merge, compare, next events | ranges that touch, days that come and go, DST | comparison sees neither more nor less than the changed outages |
| **Groups of accounts**: `account_groups.py`, `account_group_client.py`, `account_schedule_updates.py` | snapshots, decisions on disk | refresh, follow a group | identity of what was read before an await | an address follows only a group that was confirmed |
| **Buildings**: `account_buildings.py` | global creation lock, options | ensure, reconcile | two accounts of one building | one entry per building |
| **Account coordinator**: `account_coordinator.py` | data per account, manual limit | refresh | overlapping refreshes | last good data are kept and dated |
| **Scheduled checks**: `account_checks.py` | journal in memory and on disk, `_failed`, one lock | start, tick, check now, close | crash between reservation, read and outcome; presses | one scheduled check a day, also over restarts |
| **Reminders and meter notices**: `account_reminders.py`, `account_notifications.py` | records, shown set, dismissals | tick, dismissal | a dismissal during a save | shown until dismissed, not again afterwards |
| **Documents**: `account_documents.py` | seen and pending documents | poll, get, download | save before and after the notification | no new document unannounced |
| **History**: `account_history.py` and its APIs | cache, attempts, generation | get, invalidate | an answer older than a submission | no history from before an attempt is kept |
| **Links, access, profile**: `account_links.py`, `account_access.py` | the cabinet's | link, unlink, grant | lost answers | a change is not repeated |
| Entry set-up, migration, flows; entities; grid; cards | — | — | entities exist before the managers have started | — |

Interactions: `AccountCoordinator` owns the managers of an account entry. `SubmissionManager` asks
`EnergyManager` for a proposal and for its guard right before the POST; `AccountChecks` asks
`SubmissionManager.check_source`, which shares the submission lock; a confirmed submission invalidates
`HistoryCache`. Public clients of all entries pass one `PublicRequestGate` per operator. `async_setup_entry`
first refreshes, then creates the entities, then starts the managers; `async_unload_entry` removes the
entities and closes the managers one after the other, each waiting for what it has under way.

## 2. Plan

The order follows what a wrong step costs: a second bill, a wrong reading, a wrong alarm, a missed notice.

| | Modules | State |
|---|---|---|
| 1 | `ReadingRules`, `Submissions`, abstract `DeliveryBarrier`, `Answers_proofs` (with `AddressCoordinator`) | done |
| 2 | `EnergyReferences` | done |
| 3 | `PublicRequests` | done |
| 4 | `ScheduleChanges` (pure), `AddressCoordinator` | done |
| 5 | `ScheduledChecks` | done |
| 6 | `PublicWebsite`, `CabinetClient` | done |
| 7 | `HistoryReads`, with the attempts that invalidate it | done |
| 8 | `Reminders`, `MeterNotices`, `Documents` | done |
| 9 | `CabinetGroups`, `ScheduleGroups`, `Buildings` | done |
| 10 | `AccountLinks` | done |
| 11 | `EnergyReferences_proofs`, `PublicWebsite_proofs` (with `PublicRequests`), `ScheduledChecks_proofs`, `CabinetClient_proofs`, `HistoryReads_proofs`, `Notices_proofs` (`Reminders`, `MeterNotices`, `Documents`), `Groups_proofs` (`AccountLinks`, `CabinetGroups`, `Buildings`, `ScheduleGroups`) | done |
| 12 | The meaning of the folds of `ScheduleChanges` and of the photo budget, and the theorems that rest on it (`Answers_proofs`) | done |
| 13 | The next events and the status of a schedule against reference definitions; `Submissions` with `EnergyReferences` | open |

## 3. Modules and code

### Submissions
`SubmissionManager` runs every operation under one `asyncio.Lock`, so the state of all tasks is that of the
holder: `phase` names what it awaits, `task` is its draft or request, `record` its attempt. `confirm()` is
`ConfirmBegin` → `ConfirmRead` (context) → source checks → `WriteLands`/`SaveReturns` (the `pending` record) →
`Post` → `CabinetHandles` → `ReplyArrives` or `ReplyLost` → save of the status. The journal's executor job
(`target`, `landed`) goes on when its task is cancelled. `disk` is what a reader of the file sees; `images` is
what it may hold after a power failure (until the directory is synced both the old and the new). `Cancel`
is a cancelled websocket or service call, `CancelAgain` a second one during the handling of the first, which
frees the lock with a write under way (`orphans`). The cabinet (`outcome`, external) decides per zone and may
answer with any of the documents `ReadingRules` distinguishes: complete, partial, contradictory or malformed.
`ReadingRules` holds the validation of values, the verdict on an answer and its HTTP status. Authorization is
an environment that withdraws rights, unlinks accounts and unloads the entry at any await.

`DeliveryBarrier` is the abstract promise: send only when nothing is outstanding, never twice.
`KeepsBarrier` is the refinement, with `outstanding` the sent and unsettled attempts of an account.

### EnergyReferences
One account in estimate mode; `queue` and `holder` are the FIFO lock of the manager; each operation is a
record in the queue, and what it reads of the sensor it reads when it gets the lock, except a report, which
carries its sample. `epoch` and `doubt`, `latched` are ghosts: discontinuities of a sensor, the references
that lost a report while nobody listened, faults that reached the disk. Left out: the difference mode (its
value is arithmetic on the same rows), the age of samples (a sensor that "cannot be read" covers it), and
eviction at 32 tokens, which `ExpireToken` contains. The meter reading a user enters is taken at the same
instant as the sample. A rise above 1 may or may not be judged a jump.

### PublicRequests
The gate in discrete time; a clock of the program becomes the time left until it. `Tick` is disabled while
any task is ready: the event loop takes no time. `owed`, `streak`, `since` and `waited` are ghosts that say
what the documentation promises, computed from failures and hints alone and not from the gate's variables.

### ScheduleChanges, AddressCoordinator
`ScheduleChanges` is `schedule_changes.py` with ranges of integers, written with folds: merging (`Ranges`),
clipping (`Within`), the groups that changed, what is remembered. `AddressCoordinator` is
`DTEKDataCoordinator` with `ScheduleUpdates`: a refresh awaits the provider (`fetching`), the display snapshot
(`snapshot`), the first load of the baseline (`loading`) and its save (`saving`). Two refreshers, the timer
and the button, may overlap: Home Assistant's coordinator does not serialize them, and the code's own lock is
that of the button alone. `known` is a ghost: what all reports so far tell of each instant; `overlapped` is one: has the
latest refresh begun while another was still at the provider or its snapshot (`AtProvider`)? `lastOk` is how the last refresh
to be through with the provider went; `last_update_success` says so a little later, when its baseline is saved. Left out: the
content of the display snapshot (it makes nothing live), the poll interval and its backoff, the notice of
changed groups, the manual limit of one a minute. Midnight is the horizon. Schedules describe intervals inside their coverage (`OutagesCovered`):
`normalize_schedule` adds both for the same day or neither.

### ScheduledChecks
The lock's FIFO queue is `waiting`, its holder `task` with the steps `reserving`, `reading`, `finishing`. A
day has two hours, before and from the selected time. `start()` loads and recovers without the lock
(`Load`, `RecoverySaved`, `StartFails`). `CancelPress` is the stop of a script that pressed the button; nothing in
the code cancels a tick except the end of the program (`Crash`). A write that fails may have replaced the
file. The `reads` and `tried` ghosts count scheduled reads and reservations. The read of the cabinet and its
reasons are one choice of outcome; the cooldown of the button only removes presses.

### PublicWebsite
`DTEKClient` with the refreshes of `DTEKWebProvider`. `op` is the one operation that has the gate; it loads the page (up
to three attempts) and posts (at most twice), each a request that is answered (`PageArrives`, `HouseAnswered`,
`Update`), challenged (`PageChallenged`), refused (`Rejected`), broken by the transport or fails. A cookie jar is a
number, `token` the jar the page's token was issued with. A refresh reads the address (`house`) and then the schedule
(`update`). A schedule has two parts, facts and preset, each with its version, so that parts of different polls can be
put together: `Merge` takes what was known, then the page or the last update, then what the answer about the house tells of
the schedule (`ForHouse`: nothing, either part or both), and asks for what is newer than the merged timestamp (`Stamp`,
which falls back to the one the preset names). A page may lack a part or have an unreadable one (`OnPage`). `Cancel` and `Close` come at any time. Constants of the code (three attempts) are themselves. External: `site`.
With a malformed delta the cache may keep the newer of two parts only, and facts without any
time stamp make polls fail until the page is read again, at most six hours later; `VerifiedIsCurrent` says so with
`malformed' = 0`. A house's answer with newer facts and no preset hides the new preset (`overtaken`): see 5. `close()` during a refresh lets the operation open an HTTP session that nobody closes.

### CabinetClient
The token under `_lock`, the negotiation of the meters' style of authorization under `_meter_lock`, which is held while
`_lock` is taken. An operation is what it waits for: a lock, the token's request, an answer. `phase` says which request it
is: an ordinary read, a meter read in the current style, in the alternate style, or the re-check with the ordinary
interface. The operator revokes tokens, changes the accepted style, or accepts neither; operations fail or are
cancelled at every wait. One route is enough: rejections are per route. If a token is revoked between its renewal and the
request in the alternate style, the comment at `account_client.py:335` does not hold and the route is blocked for
its 60 seconds although the style is right; `StyleFound` shows that it recovers.

### HistoryReads
`HistoryCache` between its readers (the history card, the readback of an attempt by a card, a bot) and the
submissions of `Submissions`, of which only `Confirm`, the cabinet's record and the answer of `confirm()` are left.
`read` is the holder of the cache's lock, `op` what each reader waits for and what it remembered when it began
(attempt, generation, rights, instance of the coordinator). `book` is the cabinet's history; a submission may be recorded
late. Ages of entries are fresh, older than a minute, and expired, with `Aged` and `MinutePassed` moving them on.
`Invalidate` runs whenever `confirm()` has returned or raised after the POST; only its cancellation skips it, and then
nothing is known of the submission, so the property does not count it. Assumed of the cabinet: a record is in its history by
the time it answers the submission (`Handle`). `docs/ENERGY_AND_READINGS.md` allows it to take longer, and calls that "no match
yet"; what `TruthfulReadback` claims is that neither the cache nor a read under way adds to that delay.

### Reminders, MeterNotices, Documents
Three managers of the same make: a record in memory, its copy in the file, one lock held through the save,
notifications shown after it. `task` is the holder with what it is about to write; a dismissal does not take the lock
before it changes the record (`UserDismisses`), which is where the code is delicate. `orphan` is a save that
its instance left behind when it was closed. `Reminders` has windows (closed, early, due), `MeterNotices` a
meter that is replaced and years of verification, `Documents` the list of the cabinet, `pending` and `seen`. Limits of the code the
models show and the properties except: a reminder dismissed in the moment of a reload when no instance has it in `_shown`
is dismissed on the screen only; `close()` of reminders and of meter notices does not wait for a timer's tick, so
its save may land late (`unsaved`, `late`); the option of a notice switched on while a tick with it off is being
saved loses that event, and a meter that alternates A, B, A, B repeats a fingerprint that was dismissed.
A notification about documents does not survive a restart after `pending` was cleared.

### CabinetGroups, ScheduleGroups, Buildings
`CabinetGroups` is `AccountGroups` with `AccountGroupClient`: the refresh goes through the accounts (`task`: login,
object, groups), each awaited while the coordinator may replace the data (`snapshot`, by identity), and is
repeated if asked for meanwhile (`again`). `told` is a ghost: what `get()` said when the listeners were last called.
`ScheduleGroups` is `AccountScheduleUpdates` for one account: `Reconcile` takes a decision from what the building and the
cabinet say, saves it, and then notifies and changes the options (`Apply`), unless a form has changed them meanwhile
(`edits` is the identity of the options). A saved decision whose notification was not shown when the entry stops is not shown
later; a journal that cannot be read starts a new comparison. The option to use the cabinet's answer and the check
of EICs are part of the choice of `house` and `cabinet`.
`Buildings` is the discovery of two cabinets and a form over the global creation lock. An entry may be written in another
spelling, removed, or added by hand at any await. A removed building leaves its link; an address added by hand
in another spelling during an import makes a second entry, outside of `OneEntryPerAddress`, which counts canonical ones.

### AccountLinks
The dialog that links or unlinks an account: two requests of one dialog may be handled at a time. `calls` holds what each
coroutine knows: kind, address it saw, the step it awaits (the lock of the cabinet's subject, login, list, directory, token,
the write). The operator and other entries change everything else between. `sent` and `confirms` are ghosts. A form that
selects the account, saved while the DELETE is on its way, leaves a monitored account that is not linked.

### Modules for TLC
`MCSubmissions`, `MCScheduledChecks` and `MCEnergyReferences` hold the constants of their modules. `MCAnswers`,
`MCPublicWebsite`, `MCNotices` and `MCGroups` put components that share no state side by side: `subject` is chosen in the initial
state, the chosen one runs with its own Init, Next and fairness, and the others never move. That is not a
composition: it answers questions about several components in one run. Each extends one component, whose properties it
checks under their own names and as the theorems state them, and instantiates the others; the properties of those are gathered
in conjunctions and are to be read in their modules.

## 4. Runs

Every run takes less than about four minutes on two cores. Deadlock is checked except in `notices` (a closed
instance after the last stop) and `groups` (a building that waits for its user, a dialog that was closed); a closed
client of the public website rests by a step of its own (`Rests`).

| Run | Question | Bounds and why they are enough |
|---|---|---|
| `submissions_barrier` | Does an unsettled POST block its account in memory, on disk and in every image of the disk; does the code implement `DeliveryBarrier`? | Two accounts, two users, two drafts, two attempts: users may hold drafts of one account, so a confirmation meets an attempt it did not make, a write of one account's record may be lost to the other's, and a second attempt may follow the first. One value and one zone: answers are in the next run. |
| `answers` | `subject = "submission"`: is the journal truthful (`TruthfulJournal`), is a confirmation used once, is a POST authorized at its instant? | One account, two zones (answers may split them), rights and link withdrawn, two attempts. |
| | `"address"`: is what entities show verified and ended in time (`ShownIsVerified`), are exactly the news reported (`ReportsAreNews`)? | One group, three instants (a verified range may lie inside an older one), every pattern of outage and unpublished, in merged and unmerged ranges, and a single clear or possible day, today or tomorrow; failures at every await; restarts. The timer's and the button's refreshes (interchangeable, hence symmetry) one at a time (`Apart`), no poll across midnight: see 5. |
| | `"overlap"`: `ShownIsVerified` again. | The same with refreshes that overlap at any await; two schedules (`Few`), of which one ends earlier. |
| `energy` | Is a dip and rebound behind a busy lock still latched (`NeverSilentlyRepaired`); do faults stay through rebounds, failed writes, restarts (`ResetsStay`); is a proposal that passes the last guard true (`SendsTruth`)? | One zone; two references, two sensors (interchangeable, hence symmetry), so that a proposal outlives its pair; a holder and a queue of two hold write, dip and rebound. Several zones of a meter: the theorems. |
| `locks` | Does the lock of the submissions get free and closing end (`LocksAreFreed`), do drafts keep their budget? | Repeated cancellation; two users of one account, one attempt, room for two drafts but for the photos of one, so that a new draft sometimes evicts the other user's. |
| `public_website` | `subject = "gate"`: are pauses exactly as long as failures call for, without anybody waiting for them (`PausesAreExact`), and operations apart (`OperationsKeepDistance`)? | Three callers; pauses 1, 2, 4, 8, 10 as in the code (minutes), hints negative, zero, within and beyond the cap of 12 in place of 60; spacing exaggerated to one unit. |
| | `"website"`: is a schedule called verified only if it is what the website publishes (`VerifiedIsCurrent`); is a token used with its cookies; do operations end, after few requests? | Two overlapping refreshes, two versions (the second, of the facts alone or of both parts, published at any await), one malformed answer; answers about the house that tell nothing, one part or both. 840,000 states. |
| `cabinet_client` | Are refusals remembered; is the accepted style found, and does every operation end? | Two operations, two faults: one token is revoked while the other operation renews it, or fails in the renewal. |
| `history_reads` | Does the cache forget what is older than an attempt; does a readback tell the truth, to those entitled; does every request end, though it may wait for the lock several times (`RequestsEnd`)? | One account, two readers, one attempt, room for one entry and one read a minute, so that eviction and the limit happen. |
| `scheduled_checks` | Is a day checked once and shown as being checked only then (`JournalIsTrue`); do reservations stay; is a schedule followed while presses compete (`DueIsChecked`)? | Two accounts in one journal, one scheduled day after a past, a tick and a press waiting behind the holder, restarts and failures anywhere. |
| `notices` | Does a dismissal stay, also through a reload; do reminders come and go; is a replacement announced; is no document missed? | Two windows, two restarts; a replaced meter and a new year, one restart; two documents, one restart: a dismissal, a save and a stop meet in every order. |
| `groups` | `subject = "link"`: does a confirmation write once, what was reviewed (`ConfirmedOnce`), and never unlink an account in use (`UnlinkedWhenUnused`)? | One dialog with two requests, so that a double submit and two actions overlap; two confirmations, one change by others. |
| | The others: is what is known current (`KnownIsCurrent`); does the user's choice stand (`ChoicesStand`); do discovery, groups and followers get there; is every reset of a sensor written down (`ResetNoticed`)? | Two cabinets, a form, two entries; two accounts and two polls, faults and a reload; two groups, two changes, two forms, a stop; one sensor with a queue of two, so that reports and operations compete. |
| `energy_false_reset`, `checks_early` | Expected violations, see 5. | A queue of three: two reports behind a view; one account. |

The bounds are marked `\* bound` where the modules declare them: numbers of tokens, attempts, faults, stops, changes, edits,
versions and polls, and the sizes of queues. `DraftLimit`, `HistoryLimit`, `PhotoBudget`, `CacheSize`, `LimitSize`, the pauses
and `HintCap` are the code's own limits, made small.

### Fairness
* Submissions, EnergyReferences: weak fairness of `Proceed`, what the lock holder does next: HTTP requests
  have timeouts, executor jobs end, and the event loop wakes the first task that waits for an `asyncio.Lock`.
  No fairness of users, the cabinet's verdict, crashes or cancellation.
* AddressCoordinator and PublicRequests are checked for safety only; that a change whose save failed is not
  forgotten shows at the next save (`ReportsAreNews` compares with all that was reported).
* ScheduledChecks: time passes, the minute timer fires, the FIFO lock is handed on, reads and saves end. None of
  presses, so they may compete for ever or never come. The property speaks of executions in which from some
  instant on the manager stays loaded with a working journal.
* PublicWebsite: requests are answered or time out (`Requests`). No refresh need ever come.
* HistoryReads: the read of the cabinet ends, a request that can go on does; weak fairness. Strong fairness of getting the
  cache's lock (`Get`), which others take in between: `asyncio.Lock` wakes its waiters in the order they came. No reader need ever
  come, nor need a read succeed.
* CabinetClient: operations begin again and again (polls are periodic), the block of a route passes, and an operation that
  can go on does. Strong fairness, because the locks it waits for are taken in between by others; they are FIFO.
* Reminders, MeterNotices, Documents: instances start, `close()` ends, the timer ticks, saves and requests end, a task
  that waits for the FIFO lock gets it. Saves are strongly fair: they may fail, but not always. None of users.
* CabinetGroups, ScheduleGroups, Buildings: polls and retries come, reloads that are asked for happen, requests end; a
  discovery gets the creation lock. Faults are bounded, so the properties speak of what follows the last one. None of
  forms, except that an import that has begun ends.
* AccountLinks: safety only; a lost answer ends a call, and nothing is repeated.

## 5. Findings

* **False reset** (`energy_false_reset`). A view reads the sensor's present value and is tracked before older
  reports that waited behind it; the older report then looks like a reset.
* **Early press** (`checks_early`). The button exists before `checks.start()` has loaded the journal; a press then
  overwrites it and the day is checked again.

Five more behaviours limit what the passing runs claim. The first and the third are switched off by a constant, the second
and the fourth are excepted by the properties themselves:

* `RepeatedCancel`: a task that is cancelled a second time while `SubmissionStore._run` waits for its executor job
  leaves the lock with the write under way, and the old journal may land over a newer one
  (`account_submission_store.py:19-29`). With `RepeatedCancel = TRUE`, `submissions_barrier` finds `DurableBarrier`
  violated. `locks` runs with it.
* Overlapping refreshes: one that fails leaves the ready flag that another sets afterwards at `coordinator.py:281`, or
  the schedule of one goes with the address of the other. Home Assistant's coordinator does not serialize a requested refresh with
  a scheduled one that awaits. `ReadyIsVerified` excepts the time from such an overlap at the provider (`overlapped`) to the
  next refresh that begins alone there, and says that that one puts everything right; without the exception TLC finds it violated.
  The reports of two refreshes that overlap may also be compared with the same old baseline, so `ReportsAreNews` is about refreshes
  that come one at a time.
* `Straddles = TRUE` in `AddressCoordinator`: when the only published day ends during a poll, its ranges are clipped to nothing
  (`schedule_changes.py:96`), the baseline of the group is emptied, and the change of the next day is not reported
  (`ReportsAreNews`).
* An answer about a house may tell newer facts without the preset published with them (`dtek_provider.py:385-388`). Their timestamp
  is then what the website is asked about, it has nothing newer, and new facts are verified with the old preset, until the page is
  read again or more is published. `VerifiedIsCurrent` excepts exactly the presets hidden in this way (`overtaken`); without the
  exception TLC finds it violated.
* Writes that Home Assistant's `Store` only logs (`account_submission_store.py:3`): in the models of the other stores a
  failed save raises. A silent one leaves the file behind the memory until the next save.

`EarlyPress` likewise switches on the behaviour of the finding, which the passing run excludes.

## 6. Proofs

Every theorem is proved for all values of the constants that satisfy the assumptions of the module: any number of accounts,
callers, readers, zones, documents, dialogs, any length of queues, any number of restarts and faults. What a run
shows for a few is then known for all of them.

| Module of proofs | Theorem | States | Assuming |
|---|---|---|---|
| `Answers_proofs` | `Typing`, `SendIsAuthorized`, `OnceConfirmedOnceSent`, `JournalIsTruthful`, `DraftsStayInBudget` | `TypeOK`, `AuthorizedSend`, `OneAttemptPerConfirmation`, `TruthfulJournal`, `DraftBudget` | |
| | `Invariance`, `BarrierIsDurable`, `ImplementsBarrier` | `DurableBarrier`, `KeepsBarrier` | `~RepeatedCancel` |
| | `ClockAlwaysCovers` (the address) | `TypeOK` and `ClockCovers` of `AddressCoordinator`, any number of refreshes overlapping | `AddressConstants` |
| | `ShownStaysVerified` | `ShownIsVerified`, any number of refreshes overlapping | `AddressConstants` |
| | `NewsAreReported` | `ReportsAreNews` | `AddressConstants`, `~Straddles` |
| `EnergyReferences_proofs` | `ResetsAreKept`, `NoneIsForgotten`, `WhatIsSentIsTrue` | `ResetsStay`, `NeverSilentlyRepaired` (with `TypeOK`), `SendsTruth` | `ReferenceConstants` |
| `PublicWebsite_proofs` | `DistanceIsKept`, `PausesAndWaits` (the gate) | `OperationsKeepDistance`, `PausesAreExact` | `GateConstants` |
| | `RequestsStaySound`, `VerifiedStaysCurrent` (the client) | `RequestsAreSound`, `VerifiedIsCurrent` | |
| `ScheduledChecks_proofs` | `Typing` | `TypeOK` | |
| | `DaysAreCheckedOnce`, `ReservationsAreKept` | `JournalIsTrue`, `ReservationsStay` | `~EarlyPress` |
| `CabinetClient_proofs` | `LocksAreHeld`, `RefusalsAreKept` | `TypeOK`, `RefusalsAreHeeded` | |
| `HistoryReads_proofs` | `CacheForgets`, `ReadbacksAreTruthful` | `CacheIsAfterSubmission`, `TruthfulReadback` | |
| `Notices_proofs` | `Typing`, `NoneIsMissed` | `TypeOK`, `NoDocumentMissed` | `ConstantsDiffer` |
| | `DismissalsAreKept`, `CompositionRefines` | `DismissalsStay`; that `MCSpec` implies the three specifications | |
| `Groups_proofs` | `ConfirmationsWriteOnce`, `UsedStaysLinked` | `ConfirmedOnce`, `UnlinkedWhenUnused` | `LinkConstants` |
| | `WhatIsKnownIsCurrent`, `ChoicesAreKept`, `CompositionRefines` | `KnownIsCurrent`, `ChoicesStand`; that `MCSpec` implies the five specifications | |

**Assumptions.** Modules that a run extends name theirs in an `ASSUME`; modules that are instantiated beside others put
them in an operator (`ReferenceConstants`, `GateConstants`, `ConstantsDiffer`, `ReminderConstants`, `NoticeConstants`, `LinkConstants`,
`BuildingConstants`, `GroupConstants`, `FollowerConstants`, `AddressConstants`), which the MC module
assumes of its instances, so TLC evaluates both kinds in the runs. They say that bounds are naturals, that sets of
tasks are finite where they are counted, and that the values standing for `None` differ from real ones. `PhotoAssumption` says that one draft fits into the photo budget (two
photos of 1 MB in 16 MB), `AddressConstants` that published schedules are records whose outages are covered. `~RepeatedCancel`,
`~EarlyPress` and `~Straddles` exclude the three behaviours of section 5 under which the property is false; nothing else is excluded, and
`OnceConfirmedOnceSent`, `JournalIsTruthful` and both `Typing` hold with them too.

### The inductive invariants
No property is inductive as it stands, except `AuthorizedSend`, which follows from the step alone. TLC checked each
strengthening as an invariant on small instances before it was proved.

* **Submissions.** `DurableBarrier` needs that a write under way holds the guard too, and that a `pending` record
  reached the disk before the POST: `Typed` (the shape of each phase), `Fresh` (numbers of attempts anywhere, in memory, in
  the file and its images, were issued) and `Barred` (what each phase has established). The refinement follows with the
  lemma `WorldSteps`: only `Post`, `ReplyArrives` and `Unlock` touch what was sent or settled. `Spent` follows the
  tokens of drafts: one that was taken or sent never comes back. `Truth` says that each record is genuine in *every*
  copy of the journal, so it survives an old write that lands late and needs no assumption about cancellation; the
  lemma `JournalSteps` reduces each step to "copies of copies, with one record replaced".
  `DraftBudget` is inductive with the finiteness of the drafts; it needs that a sum does not depend on the order of its terms and
  grows with the set (`PhotosOfRest`, `PhotosOfFewer`), and that what `Evict` keeps is part of what fitted (`EvictLeavesRoom`).
* **ScheduleChanges** (in `Answers_proofs`). Its operators are folds over sets of ranges. The proofs say what each means, instant
  by instant: `In(t, S)` is that a range of `S` holds `t`. `RangesMerged` and `RangesSay` say that merging keeps the instants and makes the
  ranges separate, `Canonical` that separate ranges with the same instants are the same, hence `SameRanges`: the comparison of two
  lists of ranges in `changed_groups()` compares instants. `AllCut` and `RememberSays` give the meaning of `remember()`, `ChangedSays` that of
  `changed_groups()`: another verified value at an instant to come, of a group known before.
* **AddressCoordinator**. `Awake` is `AddressShape` with `ClockCovers`; it is inductive by itself, because every end of a refresh sets the
  clock again, so overlapping refreshes cannot leave it late. `Verified` adds `Live`: unless refreshes `overlapped`, only one is at
  the provider or its snapshot, and if at the snapshot it has the address and the groups of its schedule, whatever the others still
  load or save. `Reported`, for refreshes that come one at a time, is `Upcoming` (a refresh compares at the instant of its start, and with days not yet
  over), `Agreement` and `Newly`. `Agreement` is the point: whatever rows the baseline has, in memory, in the file and in the write
  under way, it says at each instant to come what the listeners were told, and knows exactly the groups they know
  (`ReportSays`); a comparison with the baseline is then a comparison with all that was reported.
* **EnergyReferences.** That no reset is forgotten depends on what still waits in the queue, so `IInv` is stated for a
  queue and a state of the sensors: `Sound(q, s, m)`. `Kills` says that a report in the queue will mark a row:
  it is of another device, or below the row's highest value, *or below a report ahead of it in the queue*, which
  is how a dip and rebound stays visible whatever operations run in between. `Followed` says that a row without a
  fault has such a report ahead whenever its sensor is in a later epoch. A new report is proved by showing `Sound` of
  the queue with the operation appended and then letting its head run, so that an operation that
  finds the lock free is the case of a queue of one (`Submitted`, `Executed`). For `SendsTruth`, `Offered` says of every
  proposal that is held, queued, written or about to be sent that it is true, or its reference missed a report, or
  it is moot, or a report that kills its reference is ahead of every request to validate it.
* **PublicRequests** (in `PublicWebsite_proofs`). `Paced` ties the pause to what is owed and the spacing to the time since the last
  operation; `Queued` bounds what each caller has waited by its position: those ahead may have taken their time, no more.
* **PublicWebsite.** Where an operation is tells what it has sent (`Budgeted`), and until the client is closed a token is
  the one of the cookies in use (`Paired`). While nothing malformed came, each schedule held says of some instant what was
  published then: its preset is the present one unless the present one is newer than its facts or was hidden by an answer about a house
  (`Coherent`); a cached
  schedule that lacks its preset has facts no newer than those of the schedule in use (`Known`).
* **ScheduledChecks.** Days in memory, in the file and in the journal of the task agree but for the one being
  reserved (`Days`), and every read has its day in the file (`ReadsAreReserved`); `Marks` finds the one run that
  is shown as being checked.
* **CabinetClient.** An operation that comes back for a token after a refusal knows that the present token was refused,
  unless it was replaced (`RefusalIsKnown`); while the route is blocked nobody is past the look at the rejections
  (`BlockedIsEmpty`).
* **HistoryReads.** A read of the present generation has seen whatever was answered (`Fresh`); a reader that has read
  this year has seen its accepted attempt (`Asking`).
* **Documents.** Every copy of the record is complete, also the one that a closed instance is still writing (`Honest`).
* **Reminders.** A dismissal in the file is in memory too, or memory and every write under way are of a later window
  (`Remembered`); for that, a tick that builds or saves a message does so for the present window and no record is
  of a later one (`Shaped`). A dismissal in memory is in the file, or somebody is about to save it (`Handed`).
* **MeterNotices.** The copy a tick is saving has the event in memory or one with another fingerprint, and nothing
  dismissed that memory has not (`Carries`), so the file never holds a dismissal that memory does not (`Reread`), unless a
  late write brought it. That the other fingerprint is another needs numbers of meters to be ordered: a replacement that
  is noted led to the number in the row or an older one (`Sound`).
* **AccountLinks.** Writes and calls that may still write are together no more than confirmations (`Covered`), and a call
  that works towards a change looked after its confirmation (`Reviewed`).
* **CabinetGroups.** While a refresh asks about an account and none is requested again, the results of the accounts before it
  are about the data of now (`Refreshed`); an update in between requests one.
* **Buildings.** The lock belongs to the one import, which adds an entry only where no canonical one is (`Settled`).
* **ScheduleGroups.** A decision that is being saved is the one that would be taken now of the house it has seen, unless a form was
  saved since (`Agrees`): when it is applied after the save, to the same house, it is the decision of this moment. Memory,
  and the file while nothing is left to save, have the groups the user knows under the present link (`Tells`); what the user
  knows of groups he chose himself is the choice (`Knows`). Both ways to carry a decision out share `CarriedStays`.

### Only model-checked
* All liveness (`CloseCompletes` and `LockFreed` in `LocksAreFreed`, `DueIsChecked`, `StyleFound`, `OperationsEnd`, `RequestsEnd`, `ResetNoticed`,
  `DocumentsSettle`, `RemindersFollow`, `ReplacementAnnounced`, `AccountsSettle`, `GroupsRecover`, `FollowsTheHouse`): fairness and ENABLED are beyond the
  prover.

The library's theorem of induction over finite sets takes an operator as its parameter and cannot be cited. `SubsetInduction` and
`NatMin` in `Answers_proofs` take a *set* instead and rest on the well-foundedness of the strict subsets of a finite set;
`FoldExists` builds the function a fold of the community modules chooses, for sets of 0, 1, 2, ... elements. A fold that
a model needs is an instance of it: the operator as a function on a set of values that it does not leave.

Where a definition of a model was recursive or chose an arbitrary element and could be said directly, it was: cancelling a
waiter is by its position (`CancelWaiting`), the account a refresh asks next is the first that is ready (`Proceed`), the cache of histories is a sequence from which positions are removed
(`Without`), and tracking of a binding is a set of functions by zone.

## 7. Not modelled

* Parsing of HTML, JavaScript schedules and JSON; formatting, localization, the layout of the grid, cards,
  images: data, with the exception of what decides a step (the shape of a cabinet's answer is modelled).
* Entities: stateless views of the coordinators. Configuration dialogs: forms over the operations of the
  managers, modelled where they change state that is shared (`AccountLinks`, `Buildings`).
* `AccountCoordinator`: a read of all accounts whose failure keeps the last data, and a limit of manual refreshes; where
  its data change matters, the models of its managers change it (`snapshot`, `profile`, `Contexts`).
* Building of schedules from rows, status and next events (`schedule.py`, `schedule_status.py`, `schedule_events.py`): pure
  functions of dates, tested in the repository; time zones and DST would have to be modelled to say more.
* The removal of an account or of an entry while its managers run; the truncation of long lists of documents; access
  grants and the profile; pagination in the cabinet; downloads.
* In the modules with one account, the independence of accounts follows from their keys in the records.
* Home Assistant, the websites, the cabinets and the file system are modelled from how this code uses them.
