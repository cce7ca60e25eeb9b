--------------------------- MODULE ScheduledChecks_proofs ---------------------------
(* Proofs about ScheduledChecks, for any accounts, days, limits and failures. *)
(* What the button does before start() has ended (EarlyPress) breaks all of   *)
(* it but the types, so the rest is proved of a button that waits for it.     *)
EXTENDS ScheduledChecks, SequenceTheorems, TLAPS

Histories == {h \in Seq(Runs) : Len(h) <= HistoryLimit}
Records   == [day : 0..LastDay, history : Histories]
Journals  == [Accounts -> Records]

Waits ==
    [kind : {"start"}] \cup [kind : {"tick"}, at : Hours]
        \cup [kind : {"manual"}, account : Accounts]

Tasks ==
    [step : {"idle", "reserving", "reading", "finishing"}, trigger : Triggers,
     account : Accounts \cup {NoAccount}, at : Hours \cup {0},
     rest : SUBSET Accounts, journal : Journals]

Shape ==
    /\ clock \in Hours /\ failed \in BOOLEAN /\ selected \subseteq Accounts
    /\ entry \in {"setup", "recovering", "loaded", "closing", "closed"}
    /\ records \in Journals /\ file \in Journals
    /\ recovered \in Journals \cup {NoRecovery}
    /\ entry = "recovering" => recovered \in Journals
    /\ waiting \in Seq(Waits) /\ task \in Tasks
    /\ task.step # "idle" => task.account \in Accounts /\ task.at \in Hours
    /\ tried \in [Accounts -> SUBSET (1..LastDay)]
    /\ reads \in [Accounts -> [1..LastDay -> Nat]]

SameDays(j, k) == \A n \in Accounts : j[n].day = k[n].day

Begun == [trigger |-> "scheduled", status |-> "checking"]

Clean(j, n)    == \A i \in DOMAIN j[n].history : j[n].history[i] # Begun
LastOnly(j, n) == \A i \in DOMAIN j[n].history :
                    j[n].history[i] = Begun => i = Len(j[n].history)

Starting == entry \in {"setup", "recovering"}
Working  == ~Starting /\ ~failed

(* Nothing is checked before start() has ended, nor once the journal failed.  *)
Phases ==
    /\ Starting => waiting = <<>> /\ task = Idle
    /\ failed => task = Idle
    /\ entry = "recovering" => SameDays(recovered, file) /\ \A n \in Accounts : Clean(recovered, n)
    /\ entry # "recovering" => recovered = NoRecovery

(* The days in memory, on the disk and in the journal of the task are the     *)
(* same, but for the one that is being reserved, which is later.              *)
Days ==
    /\ Working => SameDays(records, file)
    /\ task.step # "idle" =>
         \A n \in Accounts :
            IF task.step = "reserving" /\ task.trigger = "scheduled" /\ n = task.account
            THEN task.journal[n].day = Day(task.at) /\ file[n].day < Day(task.at)
            ELSE task.journal[n].day = file[n].day

(* What was read was reserved on the disk before, once.                       *)
ReadsAreReserved ==
    \A n \in Accounts, d \in 1..LastDay :
        reads[n][d] <= 1 /\ (reads[n][d] # 0 => d <= file[n].day)

(* A run that is shown as begun is the last, and the one of the task.         *)
Mine(j, n) == task.account = n /\ task.trigger = "scheduled" /\ LastOnly(j, n)

Marks ==
    /\ task.step \in {"reading", "finishing"} => records = task.journal
    /\ entry = "loaded" /\ ~failed =>
         \A n \in selected :
            /\ Clean(records, n) \/ (task.step = "reading" /\ Mine(records, n))
            /\ task.step = "reserving" => Clean(task.journal, n) \/ Mine(task.journal, n)

IInv == Shape /\ Phases /\ Days /\ ReadsAreReserved /\ Marks

-------------------------------------------------------------------------------
(* Lemmas about the operators on journals.                                    *)
LEMMA DaysOfHours == \A hour \in Hours : Day(hour) \in 1..LastDay
BY DaysAssumption DEF Hours, Day

LEMMA Empty == NewJournal \in Journals /\ Idle \in Tasks
<1>1. <<>> \in Seq(Runs) /\ Len(<<>>) = 0
    OBVIOUS
<1>2. NewRecord \in Records
    BY <1>1, DaysAssumption, BoundsAssumption DEF NewRecord, Records, Histories
<1> QED BY <1>2 DEF NewJournal, Journals, Idle, Tasks, Triggers

(* The history with a new run keeps to the limit, and all that is new in it   *)
(* is its last run.                                                           *)
LEMMA LatestIs ==
    ASSUME NEW h \in Histories, NEW run \in Runs
    PROVE  /\ Latest(h, run) \in Histories
           /\ \A i \in DOMAIN Latest(h, run) :
                 \/ i = Len(Latest(h, run)) /\ Latest(h, run)[i] = run
                 \/ \E k \in DOMAIN h : Latest(h, run)[i] = h[k]
<1> DEFINE all == Append(h, run)
<1>1. h \in Seq(Runs) /\ Len(h) \in Nat /\ Len(h) <= HistoryLimit /\ DOMAIN h = 1..Len(h)
    BY DEF Histories
<1>2. /\ all \in Seq(Runs) /\ Len(all) = Len(h) + 1 /\ all # <<>>
      /\ (\A i \in 1..Len(h) : all[i] = h[i]) /\ all[Len(h) + 1] = run
    BY <1>1
<1>3. Latest(h, run) = IF Len(all) <= HistoryLimit THEN all ELSE Tail(all)
    BY DEF Latest
<1> HIDE DEF all
<1>4. CASE Len(all) <= HistoryLimit
  <2>1. Latest(h, run) = all /\ DOMAIN all = 1..(Len(h) + 1)
      BY <1>2, <1>3, <1>4
  <2> QED BY <1>1, <1>2, <1>4, <2>1 DEF Histories
<1>5. CASE ~ (Len(all) <= HistoryLimit)
  <2>1. PICK rest : rest = Tail(all)
      OBVIOUS
  <2>2. /\ rest \in Seq(Runs) /\ Len(rest) = Len(h) /\ DOMAIN rest = 1..Len(h)
        /\ \A i \in 1..Len(h) : rest[i] = all[i + 1]
      BY <1>1, <1>2, <2>1, HeadTailProperties
  <2>3. rest \in Histories
      BY <1>1, <2>2 DEF Histories
  <2>4. ASSUME NEW i \in DOMAIN rest
        PROVE  (i = Len(rest) /\ rest[i] = run) \/ \E k \in DOMAIN h : rest[i] = h[k]
    <3>1. CASE i = Len(h)
        BY <1>2, <2>2, <3>1
    <3>2. CASE i # Len(h)
      <4>1. i + 1 \in DOMAIN h /\ rest[i] = h[i + 1]
          BY <1>1, <1>2, <2>2, <3>2
      <4> QED BY <4>1
    <3> QED BY <3>1, <3>2
  <2>5. Latest(h, run) = rest
      BY <1>3, <1>5, <2>1
  <2> QED BY <2>3, <2>4, <2>5
<1> QED BY <1>4, <1>5

LEMMA ReservedIs ==
    ASSUME NEW j \in Journals, NEW n \in Accounts, NEW trigger \in Triggers, NEW hour \in Hours
    PROVE  LET k == Reserved(n, trigger, j, hour)
           IN  /\ k \in Journals
               /\ \A m \in Accounts : m # n => k[m] = j[m]
               /\ k[n].day = IF trigger = "scheduled" THEN Day(hour) ELSE j[n].day
               /\ Clean(j, n) => LastOnly(k, n) /\ (trigger = "manual" => Clean(k, n))
<1> DEFINE run == [trigger |-> trigger, status |-> "checking"]
           rec == [day |-> IF trigger = "scheduled" THEN Day(hour) ELSE j[n].day,
                   history |-> Latest(j[n].history, run)]
           k == Reserved(n, trigger, j, hour)
<1>1. j[n] \in Records /\ j[n].day \in 0..LastDay /\ j[n].history \in Histories
    BY DEF Journals, Records
<1>2. run \in Runs /\ (run = Begun <=> trigger = "scheduled")
    BY DEF Runs, Statuses, Begun
<1>3. /\ Latest(j[n].history, run) \in Histories
      /\ \A i \in DOMAIN Latest(j[n].history, run) :
            \/ i = Len(Latest(j[n].history, run)) /\ Latest(j[n].history, run)[i] = run
            \/ \E p \in DOMAIN j[n].history : Latest(j[n].history, run)[i] = j[n].history[p]
    BY <1>1, <1>2, LatestIs
<1>4. Day(hour) \in 0..LastDay
    BY DaysOfHours, DaysAssumption
<1>5. rec \in Records /\ rec.history = Latest(j[n].history, run)
      /\ rec.day = IF trigger = "scheduled" THEN Day(hour) ELSE j[n].day
    BY <1>1, <1>3, <1>4 DEF Records
<1>6. k = [j EXCEPT ![n] = rec]
    BY DEF Reserved
<1> HIDE DEF k, rec, run
<1>7. k \in Journals /\ k[n] = rec /\ \A m \in Accounts : m # n => k[m] = j[m]
    BY <1>5, <1>6 DEF Journals
<1>8. ASSUME Clean(j, n) PROVE LastOnly(k, n) /\ (trigger = "manual" => Clean(k, n))
    BY <1>2, <1>3, <1>5, <1>7, <1>8 DEF Clean, LastOnly
<1> QED BY <1>5, <1>7, <1>8 DEF k

(* A run that ends takes its last status in place.                            *)
LEMMA EndedIs ==
    ASSUME NEW j \in Journals, NEW n \in Accounts, NEW status \in Statuses \ {"checking"}
    PROVE  LET k == [j EXCEPT ![n].history = SetLast(@, status)]
           IN  /\ k \in Journals /\ SameDays(k, j)
               /\ \A m \in Accounts : m # n => k[m] = j[m]
               /\ LastOnly(j, n) => Clean(k, n)
<1> DEFINE h == j[n].history
           g == SetLast(h, status)
           k == [j EXCEPT ![n].history = SetLast(@, status)]
<1>1. j[n] \in Records /\ h \in Seq(Runs) /\ Len(h) <= HistoryLimit /\ DOMAIN h = 1..Len(h)
      /\ Len(h) \in Nat
    BY DEF Journals, Records, Histories
<1>2. g = [h EXCEPT ![Len(h)] = [h[Len(h)] EXCEPT !.status = status]]
    BY DEF SetLast
<1>3. \A i \in 1..Len(h) : h[i] \in Runs /\ [h[i] EXCEPT !.status = status] \in Runs
                           /\ [h[i] EXCEPT !.status = status] # Begun
  <2>1. ASSUME NEW run \in Runs
        PROVE  [run EXCEPT !.status = status] \in Runs /\ [run EXCEPT !.status = status] # Begun
      BY DEF Runs, Begun
  <2>2. \A i \in 1..Len(h) : h[i] \in Runs
      BY <1>1
  <2> QED BY <2>1, <2>2
<1>4. /\ DOMAIN g = 1..Len(h)
      /\ \A i \in 1..Len(h) : g[i] = IF i = Len(h) THEN [h[i] EXCEPT !.status = status] ELSE h[i]
    BY <1>1, <1>2
<1>5. g \in [1..Len(h) -> Runs]
    BY <1>1, <1>2, <1>3
<1>6. g \in Seq(Runs) /\ Len(g) = Len(h)
    BY <1>1, <1>5
<1>7. PICK rec : rec = [j[n] EXCEPT !.history = g]
    OBVIOUS
<1>8. rec \in Records /\ rec.day = j[n].day /\ rec.history = g
    BY <1>1, <1>6, <1>7 DEF Records, Histories
<1>9. k = [j EXCEPT ![n] = rec]
    BY <1>7
<1> HIDE DEF k, g
<1>10. k \in Journals /\ k[n] = rec /\ \A m \in Accounts : m # n => k[m] = j[m]
    BY <1>8, <1>9 DEF Journals
<1>11. SameDays(k, j)
    BY <1>8, <1>10 DEF SameDays
<1>12. ASSUME LastOnly(j, n) PROVE Clean(k, n)
    BY <1>1, <1>3, <1>4, <1>8, <1>10, <1>12 DEF LastOnly, Clean
<1> QED BY <1>10, <1>11, <1>12 DEF k

(* start() marks what was being checked, and leaves the days.                 *)
LEMMA RecoveredIs ==
    ASSUME NEW j \in Journals
    PROVE  /\ Recovered(j) \in Journals /\ SameDays(Recovered(j), j)
           /\ \A n \in Accounts : Clean(Recovered(j), n)
<1> DEFINE mark(run) == IF run.status = "checking" THEN [run EXCEPT !.status = "interrupted"] ELSE run
           g(n) == [i \in DOMAIN j[n].history |-> mark(j[n].history[i])]
           k == Recovered(j)
<1>1. ASSUME NEW n \in Accounts
      PROVE  k[n] \in Records /\ k[n].day = j[n].day /\ Clean(k, n)
  <2>1. /\ j[n] \in Records /\ j[n].history \in Seq(Runs) /\ Len(j[n].history) <= HistoryLimit
        /\ DOMAIN j[n].history = 1..Len(j[n].history) /\ Len(j[n].history) \in Nat
      BY DEF Journals, Records, Histories
  <2>2. \A run \in Runs : mark(run) \in Runs /\ mark(run) # Begun
      BY DEF Runs, Statuses, Begun
  <2>3. k[n] = [j[n] EXCEPT !.history = g(n)]
      BY DEF Recovered
  <2> HIDE DEF mark, k
  <2>4. g(n) \in [1..Len(j[n].history) -> Runs]
      BY <2>1, <2>2
  <2>5. \A i \in DOMAIN g(n) : g(n)[i] # Begun
      BY <2>1, <2>2
  <2> HIDE DEF g
  <2>6. g(n) \in Seq(Runs) /\ Len(g(n)) = Len(j[n].history)
      BY <2>1, <2>4
  <2>7. k[n] \in Records /\ k[n].day = j[n].day /\ k[n].history = g(n)
      BY <2>1, <2>3, <2>6 DEF Records, Histories
  <2> QED BY <2>5, <2>7 DEF Clean
<1>2. k = [n \in Accounts |-> k[n]]
    BY DEF Recovered
<1> HIDE DEF k
<1>3. k \in Journals
    BY <1>1, <1>2 DEF Journals
<1> QED BY <1>1, <1>3 DEF SameDays, k

-------------------------------------------------------------------------------
(* What a task is given when it reserves a run, and where it may come from.   *)
LEMMA ReserveIs ==
    ASSUME NEW n \in Accounts, NEW trigger \in Triggers, NEW j \in Journals, NEW hour \in Hours,
           NEW rest \in SUBSET Accounts, tried \in [Accounts -> SUBSET (1..LastDay)],
           Reserve(n, trigger, j, hour, rest)
    PROVE  /\ task' \in Tasks /\ tried' \in [Accounts -> SUBSET (1..LastDay)]
           /\ task'.step = "reserving" /\ task'.trigger = trigger /\ task'.account = n
           /\ task'.at = hour /\ task'.journal = Reserved(n, trigger, j, hour)
<1>1. Reserved(n, trigger, j, hour) \in Journals
    BY ReservedIs
<1>2. task' \in Tasks
    BY <1>1 DEF Reserve, Tasks
<1>3. tried' \in [Accounts -> SUBSET (1..LastDay)]
    BY DaysOfHours DEF Reserve
<1> QED BY <1>2, <1>3 DEF Reserve

LEMMA ContinueIs ==
    ASSUME NEW j, NEW hour, NEW rest \in SUBSET Accounts, Continue(rest, j, hour)
    PROVE  EndRun \/ \E n \in rest : /\ Due(n, j, hour) /\ Authorized(n)
                                     /\ Reserve(n, "scheduled", j, hour, rest \ {n})
BY DEF Continue

(* The same for every step that reserves a run of a journal j.                *)
Reserves(j) ==
    \E n \in Accounts, trigger \in Triggers, hour \in Hours, rest \in SUBSET Accounts :
        /\ Authorized(n) /\ Reserve(n, trigger, j, hour, rest)
        /\ trigger = "scheduled" => j[n].day < Day(hour)

LEMMA AcquireIs ==
    ASSUME Shape, Acquire
    PROVE  /\ task = Idle /\ waiting' \in Seq(Waits) /\ (failed => EndRun)
           /\ UNCHANGED <<clock, entry, selected, failed, records, file, recovered, reads>>
           /\ EndRun \/ Reserves(records)
<1>1. /\ task = Idle /\ waiting # <<>> /\ waiting' = Tail(waiting)
      /\ UNCHANGED <<clock, entry, selected, failed, records, file, recovered, reads>>
    BY DEF Acquire, managerVars
<1>2. waiting' \in Seq(Waits) /\ Head(waiting) \in Waits
    BY <1>1, HeadTailProperties DEF Shape
<1>3. PICK w \in Waits : w = Head(waiting)
    BY <1>2
<1>4. PICK hour : hour = IF w.kind = "tick" THEN w.at ELSE clock
    OBVIOUS
<1>5. hour \in Hours
    BY <1>3, <1>4 DEF Waits, Shape
<1>6. IF w.kind = "manual"
      THEN IF Authorized(w.account) THEN Reserve(w.account, "manual", records, hour, {}) ELSE EndRun
      ELSE IF failed THEN EndRun ELSE Continue(selected, records, hour)
    BY <1>3, <1>4 DEF Acquire
<1>7. failed => EndRun
    BY <1>6 DEF Authorized
<1>8. CASE w.kind = "manual"
  <2>1. w.account \in Accounts /\ {} \in SUBSET Accounts /\ "manual" \in Triggers
      BY <1>3, <1>8 DEF Waits, Triggers
  <2>2. CASE Authorized(w.account)
    <3>1. Reserve(w.account, "manual", records, hour, {})
        BY <1>6, <1>8, <2>2
    <3>2. Reserves(records)
        BY <1>5, <2>1, <2>2, <3>1 DEF Reserves
    <3> QED BY <1>1, <1>2, <1>7, <3>2
  <2> QED BY <1>1, <1>2, <1>6, <1>7, <1>8, <2>2
<1>9. CASE w.kind # "manual"
  <2>1. EndRun \/ Continue(selected, records, hour)
      BY <1>6, <1>9
  <2>2. EndRun \/ \E n \in selected : /\ Due(n, records, hour) /\ Authorized(n)
                                      /\ Reserve(n, "scheduled", records, hour, selected \ {n})
      BY <2>1, ContinueIs DEF Shape
  <2>3. EndRun \/ Reserves(records)
      BY <1>5, <2>2 DEF Reserves, Due, Triggers, Shape
  <2> QED BY <1>1, <1>2, <1>7, <2>3
<1> QED BY <1>8, <1>9

LEMMA OutcomeSavedIs ==
    ASSUME Shape, OutcomeSaved
    PROVE  /\ task.step = "finishing" /\ file' = task.journal /\ records' = task.journal
           /\ UNCHANGED <<clock, entry, selected, failed, recovered, waiting, reads>>
           /\ EndRun \/ Reserves(task.journal)
<1>1. /\ task.step = "finishing" /\ file' = task.journal /\ records' = task.journal
      /\ UNCHANGED <<clock, entry, selected, failed, recovered, waiting, reads>>
      /\ Continue(task.rest, task.journal, task.at)
    BY DEF OutcomeSaved
<1>2. task.rest \in SUBSET Accounts /\ task.at \in Hours
    BY <1>1 DEF Shape, Tasks
<1>3. EndRun \/ \E n \in task.rest :
         /\ Due(n, task.journal, task.at) /\ Authorized(n)
         /\ Reserve(n, "scheduled", task.journal, task.at, task.rest \ {n})
    BY <1>1, <1>2, ContinueIs
<1>4. EndRun \/ Reserves(task.journal)
    BY <1>2, <1>3 DEF Reserves, Due, Triggers
<1> QED BY <1>1, <1>4

LEMMA ReservesShape ==
    ASSUME Shape, NEW j \in Journals, EndRun \/ Reserves(j)
    PROVE  /\ task' \in Tasks /\ tried' \in [Accounts -> SUBSET (1..LastDay)]
           /\ task'.step # "idle" => task'.account \in Accounts /\ task'.at \in Hours
<1>1. CASE EndRun
    BY <1>1, Empty DEF EndRun, Idle, Shape
<1>2. CASE Reserves(j)
  <2>1. PICK n \in Accounts, trigger \in Triggers, hour \in Hours, rest \in SUBSET Accounts :
          Reserve(n, trigger, j, hour, rest)
      BY <1>2 DEF Reserves
  <2> QED BY <2>1, ReserveIs DEF Shape
<1> QED BY <1>1, <1>2

(* The status a read ends with.                                               *)
LEMMA ReadEndsIs ==
    ASSUME Shape, NEW outcome \in Outcomes, ReadEnds(outcome)
    PROVE  \E status \in Statuses \ {"checking"}, k \in Journals :
             /\ k = [task.journal EXCEPT ![task.account].history = SetLast(@, status)]
             /\ task.step = "reading" /\ task' = [task EXCEPT !.step = "finishing", !.journal = k]
             /\ records' = IF records = task.journal THEN k ELSE records
             /\ UNCHANGED <<clock, entry, selected, failed, file, recovered, waiting, tried, reads>>
<1>1. PICK status : status = IF Closed THEN "interrupted" ELSE outcome
    OBVIOUS
<1>2. status \in Statuses \ {"checking"}
    BY <1>1, OutcomeAssumption DEF Statuses
<1>3. PICK k : k = [task.journal EXCEPT ![task.account].history = SetLast(@, status)]
    OBVIOUS
<1>4. task.journal \in Journals /\ task.account \in Accounts
    BY DEF ReadEnds, Shape, Tasks
<1>5. k \in Journals
    BY <1>2, <1>3, <1>4, EndedIs
<1> QED BY <1>1, <1>2, <1>3, <1>5 DEF ReadEnds, ghostVars

LEMMA ShapeInit == Init => Shape
<1> SUFFICES ASSUME Init PROVE Shape
    OBVIOUS
<1>1. <<>> \in Seq(Waits) /\ 2 \in Hours
    BY DaysAssumption DEF Hours
<1> QED BY <1>1, Empty DEF Init, Shape, Idle

LEMMA ShapeNext ==
    ASSUME Shape, [Next]_vars
    PROVE  Shape'
<1> USE DEF managerVars, ghostVars, vars
<1>0. task.journal \in Journals
    BY DEF Shape, Tasks
<1>1. CASE Load
  <2>1. records' = file /\ UNCHANGED <<clock, selected, failed, file, task, tried, reads>>
      BY <1>1 DEF Load
  <2>2. CASE Started
      BY <2>1, <2>2 DEF Started, Shape, Waits
  <2>3. CASE entry' = "recovering" /\ recovered' = Recovered(file) /\ UNCHANGED waiting
      BY <2>1, <2>3, RecoveredIs DEF Shape
  <2> QED BY <1>1, <2>2, <2>3 DEF Load
<1>2. CASE RecoverySaved
    BY <1>2 DEF RecoverySaved, Started, Shape, Waits
<1>3. CASE StartFails
    BY <1>3 DEF StartFails, Shape
<1>4. CASE Fire
    BY <1>4 DEF Fire, Shape, Waits
<1>5. CASE \E n \in Accounts : Press(n) \/ Deselect(n)
  <2>1. ASSUME NEW n \in Accounts, Press(n) PROVE Shape'
    <3>1. [kind |-> "manual", account |-> n] \in Waits
        BY DEF Waits
    <3> QED BY <2>1, <3>1 DEF Press, Shape
  <2>2. ASSUME NEW n \in Accounts, Deselect(n) PROVE Shape'
      BY <2>2 DEF Deselect, Shape
  <2> QED BY <1>5, <2>1, <2>2
<1>6. CASE Acquire
  <2>1. /\ waiting' \in Seq(Waits)
        /\ UNCHANGED <<clock, entry, selected, failed, records, file, recovered, reads>>
        /\ EndRun \/ Reserves(records)
      BY <1>6, AcquireIs
  <2>2. records \in Journals
      BY DEF Shape
  <2> QED BY <2>1, <2>2, ReservesShape DEF Shape
<1>7. CASE ReservationSaved
  <2>1. task' \in Tasks /\ (task'.step # "idle" => task'.account \in Accounts /\ task'.at \in Hours)
    <3>1. task.step = "reserving" /\ task.account \in Accounts /\ task.at \in Hours /\ task \in Tasks
        BY <1>7 DEF ReservationSaved, Shape
    <3>2. [task EXCEPT !.step = "reading"] \in Tasks
          /\ [task EXCEPT !.step = "reading"].account = task.account
          /\ [task EXCEPT !.step = "reading"].at = task.at
        BY <3>1 DEF Tasks
    <3>3. task' = [task EXCEPT !.step = "reading"] \/ task' = Idle
        BY <1>7 DEF ReservationSaved
    <3>4. Idle \in Tasks /\ Idle.step = "idle"
        BY Empty DEF Idle
    <3> QED BY <3>1, <3>2, <3>3, <3>4
  <2>2. reads' \in [Accounts -> [1..LastDay -> Nat]]
    <3>1. task.account \in Accounts /\ Day(task.at) \in 1..LastDay
        BY <1>7, DaysOfHours DEF ReservationSaved, Shape
    <3>2. PICK row : row = [reads[task.account] EXCEPT ![Day(task.at)] = @ + 1]
        OBVIOUS
    <3>3. row \in [1..LastDay -> Nat]
      <4>1. PICK old \in [1..LastDay -> Nat], d \in 1..LastDay :
                old = reads[task.account] /\ d = Day(task.at)
          BY <3>1 DEF Shape
      <4>2. row = [old EXCEPT ![d] = @ + 1]
          BY <3>2, <4>1
      <4>3. old[d] \in Nat
          OBVIOUS
      <4> QED BY <4>2, <4>3
    <3>4. reads' = [reads EXCEPT ![task.account] = row] \/ reads' = reads
        BY <1>7, <3>2 DEF ReservationSaved
    <3> QED BY <3>1, <3>3, <3>4 DEF Shape
  <2> QED BY <1>0, <1>7, <2>1, <2>2 DEF ReservationSaved, Shape
<1>8. CASE OutcomeSaved
    BY <1>0, <1>8, OutcomeSavedIs, ReservesShape DEF Shape
<1>9. CASE SaveFails
    BY <1>0, <1>9, Empty DEF SaveFails, Shape, Idle
<1>10. CASE CancelPress
    BY <1>0, <1>10, Empty DEF CancelPress, Shape, Idle
<1>11. ASSUME NEW outcome \in Outcomes, ReadEnds(outcome) PROVE Shape'
  <2>1. PICK status \in Statuses \ {"checking"}, k \in Journals :
             /\ task.step = "reading" /\ task' = [task EXCEPT !.step = "finishing", !.journal = k]
             /\ records' = IF records = task.journal THEN k ELSE records
             /\ UNCHANGED <<clock, entry, selected, failed, file, recovered, waiting, tried, reads>>
      BY <1>11, ReadEndsIs
  <2>2. task' \in Tasks /\ task'.account = task.account /\ task'.at = task.at
      BY <2>1 DEF Shape, Tasks
  <2> QED BY <2>1, <2>2 DEF Shape
<1>12. CASE Close \/ CloseEnds
    BY <1>12 DEF Close, CloseEnds, Shape
<1>13. CASE Reload \/ Crash
  <2>1. NewManager /\ file' \in Journals /\ UNCHANGED <<clock, tried, reads>>
      BY <1>0, <1>13 DEF Reload, Crash, Shape
  <2>2. <<>> \in Seq(Waits)
      OBVIOUS
  <2> QED BY <2>1, <2>2, Empty DEF NewManager, Shape, Idle
<1>14. CASE Pass
    BY <1>14 DEF Pass, Shape
<1>15. CASE UNCHANGED vars
    BY <1>15 DEF Shape
<1> QED BY <1>1, <1>2, <1>3, <1>4, <1>5, <1>6, <1>7, <1>8, <1>9, <1>10, <1>11, <1>12, <1>13,
           <1>14, <1>15 DEF Next

LEMMA JournalsAreOK == \A j \in Journals : JournalOK(j)
<1> SUFFICES ASSUME NEW j \in Journals, NEW n \in Accounts
             PROVE  /\ DOMAIN j[n] = {"day", "history"} /\ j[n].day \in 0..LastDay
                    /\ DOMAIN j[n].history \in {1..k : k \in 0..HistoryLimit}
                    /\ \A i \in DOMAIN j[n].history : j[n].history[i] \in Runs
    BY DEF JournalOK, Journals
<1>1. j[n] \in Records
    BY DEF Journals
<1>2. /\ j[n].history \in Seq(Runs) /\ Len(j[n].history) \in 0..HistoryLimit
      /\ DOMAIN j[n].history = 1..Len(j[n].history)
    BY <1>1, BoundsAssumption DEF Records, Histories
<1>3. \A i \in DOMAIN j[n].history : j[n].history[i] \in Runs
    BY <1>2
<1>4. DOMAIN j[n] = {"day", "history"} /\ j[n].day \in 0..LastDay
    BY <1>1 DEF Records
<1> QED BY <1>2, <1>3, <1>4

(* The variables keep their types, also if the button is pressed early.       *)
THEOREM Typing == Spec => []TypeOK
<1>1. Init => Shape
    BY ShapeInit
<1>2. Shape /\ [Next]_vars => Shape'
    BY ShapeNext
<1>3. Shape => TypeOK
  <2> SUFFICES ASSUME Shape PROVE TypeOK
      OBVIOUS
  <2>1. task.journal \in Journals
      BY DEF Shape, Tasks
  <2>2. ASSUME NEW i \in DOMAIN waiting PROVE waiting[i].kind \in {"start", "tick", "manual"}
    <3>1. waiting[i] \in Waits
        BY DEF Shape
    <3> QED BY <3>1 DEF Waits
  <2> QED BY <2>1, <2>2, JournalsAreOK DEF Shape, TypeOK, Tasks
<1> QED BY <1>1, <1>2, <1>3, PTL DEF Spec

-------------------------------------------------------------------------------
Kept == \A n \in Accounts : file[n].day <= file'[n].day

Rest == Phases /\ Days /\ Marks

LEMMA Types ==
    ASSUME Shape
    PROVE  /\ records \in Journals /\ file \in Journals /\ task.journal \in Journals
           /\ \A j \in Journals : \A n \in Accounts : j[n].day \in Int
           /\ \A n \in Accounts : file[n].day \in Int
BY DEF Shape, Tasks, Journals, Records

(* While a run is under way, start() has ended and the journal works.         *)
LEMMA Underway ==
    ASSUME Phases, task.step # "idle"
    PROVE  Working /\ (entry # "recovering" /\ recovered = NoRecovery)
BY DEF Phases, Idle, Working, Starting

(* A journal that the task may write has no earlier day than the file.        *)
LEMMA WrittenIsLater ==
    ASSUME Shape, Days, task.step # "idle"
    PROVE  \A n \in Accounts : file[n].day <= task.journal[n].day
<1> SUFFICES ASSUME NEW n \in Accounts PROVE file[n].day <= task.journal[n].day
    OBVIOUS
<1>1. file[n].day \in Int /\ task.journal[n].day \in Int
    BY Types
<1> QED BY <1>1 DEF Days

LEMMA RestInit == Init => Rest /\ ReadsAreReserved
<1> SUFFICES ASSUME Init PROVE Rest /\ ReadsAreReserved
    OBVIOUS
<1> QED BY DEF Init, Rest, Phases, Days, Marks, ReadsAreReserved, Idle, Starting, Working, SameDays

(* The steps of start(), the reload and a crash.                              *)
LEMMA RestStart ==
    ASSUME Shape, Rest, Load \/ RecoverySaved \/ StartFails \/ Reload \/ Crash
    PROVE  Rest' /\ Kept
<1> USE DEF managerVars, ghostVars, Rest
<1>i. Idle.step = "idle"
    BY DEF Idle
<1>t. /\ \A n \in Accounts : file[n].day \in Int
      /\ \A n \in Accounts : file[n].day <= file[n].day
    BY Types
<1>1. CASE Load
  <2>1. /\ records' = file /\ UNCHANGED <<failed, file, task, selected>> /\ task = Idle
        /\ waiting = <<>> /\ recovered = NoRecovery
      BY <1>1 DEF Load, Phases, Starting
  <2>2. SameDays(Recovered(file), file) /\ \A n \in Accounts : Clean(Recovered(file), n)
      BY RecoveredIs DEF Shape
  <2>3. CASE Recovered(file) = file /\ Started
    <3>1. Phases'
        BY <1>i, <2>1, <2>3 DEF Started, Phases, Starting
    <3>2. Days'
        BY <1>i, <2>1, <2>3 DEF Started, Days, SameDays
    <3>3. Marks'
        BY <1>i, <2>1, <2>2, <2>3 DEF Marks, Clean, Shape
    <3> QED BY <1>t, <2>1, <3>1, <3>2, <3>3 DEF Kept
  <2>4. CASE entry' = "recovering" /\ recovered' = Recovered(file) /\ UNCHANGED waiting
    <3>1. Phases'
        BY <1>i, <2>1, <2>2, <2>4 DEF Phases, Starting, SameDays, Clean
    <3>2. Days' /\ Marks'
        BY <1>i, <2>1, <2>4 DEF Days, Marks, Working, Starting
    <3> QED BY <1>t, <2>1, <3>1, <3>2 DEF Kept
  <2> QED BY <1>1, <2>3, <2>4 DEF Load
<1>2. CASE RecoverySaved
  <2>1. /\ records' = recovered /\ file' = recovered /\ Started
        /\ UNCHANGED <<failed, task, selected>> /\ task = Idle
        /\ SameDays(recovered, file) /\ \A n \in Accounts : Clean(recovered, n)
      BY <1>2 DEF RecoverySaved, Phases, Starting
  <2>2. Phases'
      BY <1>i, <2>1 DEF Started, Phases, Starting
  <2>3. Days'
      BY <1>i, <2>1 DEF Days, SameDays
  <2>4. Marks'
      BY <1>i, <2>1 DEF Marks, Clean, Shape
  <2>5. Kept
      BY <1>t, <2>1 DEF Kept, SameDays
  <2> QED BY <2>2, <2>3, <2>4, <2>5
<1>3. CASE StartFails
  <2>1. /\ failed' = TRUE /\ entry' = "loaded" /\ recovered' = NoRecovery
        /\ UNCHANGED <<task, waiting>> /\ task = Idle
      BY <1>3 DEF StartFails, Phases, Starting
  <2>2. file' = file \/ (file' = recovered /\ SameDays(recovered, file))
      BY <1>3 DEF StartFails, Phases
  <2>3. Rest'
      BY <1>i, <2>1 DEF Phases, Days, Marks, Working, Starting
  <2> QED BY <1>t, <2>2, <2>3 DEF Kept, SameDays
<1>4. CASE Reload \/ Crash
  <2>1. NewManager
      BY <1>4 DEF Reload, Crash
  <2>2. Rest'
      BY <1>i, <2>1 DEF NewManager, Phases, Days, Marks, Working, Starting
  <2>3. \/ file' = file
        \/ file' = recovered /\ SameDays(recovered, file)
        \/ task.step # "idle" /\ file' = task.journal
      BY <1>4 DEF Reload, Crash, Phases
  <2>4. Kept
      BY <1>t, <2>3, WrittenIsLater DEF Kept, SameDays
  <2> QED BY <2>2, <2>4
<1> QED BY <1>1, <1>2, <1>3, <1>4

(* The steps that leave the journals and the task alone.                      *)
LEMMA RestOutside ==
    ASSUME ~EarlyPress, Shape, Rest,
           \/ Fire \/ Close \/ CloseEnds \/ Pass \/ UNCHANGED vars
           \/ \E n \in Accounts : Press(n) \/ Deselect(n)
    PROVE  Rest' /\ Kept
<1> USE DEF managerVars, ghostVars, vars, Rest
<1>1. UNCHANGED <<failed, records, file, recovered, task>> /\ selected' \subseteq selected
    BY DEF Fire, Close, CloseEnds, Pass, Press, Deselect
<1>2. /\ Starting' => Starting /\ UNCHANGED waiting
      /\ entry' = "recovering" <=> entry = "recovering"
      /\ entry' = "loaded" => entry = "loaded"
      /\ Starting => Starting'
    BY DEF Fire, Close, CloseEnds, Pass, Press, Deselect, Starting
<1>3. Phases'
    BY <1>1, <1>2 DEF Phases, SameDays, Clean
<1>4. Days'
    BY <1>1, <1>2 DEF Days, Working, SameDays
<1>5. Marks'
    BY <1>1, <1>2 DEF Marks, Clean, Mine, LastOnly
<1>6. Kept
    BY <1>1, Types DEF Kept
<1> QED BY <1>3, <1>4, <1>5, <1>6

(* A run is reserved in the journal j that is on the disk, which shows none as*)
(* begun.                                                                     *)
LEMMA RestReserves ==
    ASSUME Shape, Working, NEW j \in Journals, SameDays(j, file'), records' = j, Reserves(j),
           entry = "loaded" => \A n \in selected : Clean(j, n),
           UNCHANGED <<entry, selected, failed, recovered>>, entry # "recovering",
           recovered = NoRecovery
    PROVE  Rest'
<1>1. PICK n \in Accounts, trigger \in Triggers, hour \in Hours, rest \in SUBSET Accounts :
        /\ Authorized(n) /\ Reserve(n, trigger, j, hour, rest)
        /\ trigger = "scheduled" => j[n].day < Day(hour)
    BY DEF Reserves
<1>2. PICK k : k = Reserved(n, trigger, j, hour)
    OBVIOUS
<1>3. /\ task'.step = "reserving" /\ task'.trigger = trigger /\ task'.account = n
      /\ task'.at = hour /\ task'.journal = k
    BY <1>1, <1>2, ReserveIs DEF Shape
<1>4. /\ \A m \in Accounts : m # n => k[m] = j[m]
      /\ k[n].day = IF trigger = "scheduled" THEN Day(hour) ELSE j[n].day
      /\ Clean(j, n) => LastOnly(k, n) /\ (trigger = "manual" => Clean(k, n))
    BY <1>2, ReservedIs
<1>5. n \in selected /\ entry = "loaded"
    BY <1>1 DEF Authorized, Working, Starting, Closed, Shape
<1>6. Phases'
    BY <1>5 DEF Phases, Working, Starting
<1>7. Days'
  <2>1. ASSUME NEW m \in Accounts
        PROVE  IF trigger = "scheduled" /\ m = n
               THEN k[m].day = Day(hour) /\ file'[m].day < Day(hour)
               ELSE k[m].day = file'[m].day
      BY <1>1, <1>4 DEF SameDays
  <2> QED BY <1>3, <2>1 DEF Days, SameDays
<1>8. Marks'
  <2>1. ASSUME NEW m \in selected
        PROVE  Clean(j, m) /\ (Clean(k, m) \/ (m = n /\ trigger = "scheduled" /\ LastOnly(k, m)))
    <3>1. Clean(j, m) /\ m \in Accounts
        BY <1>5 DEF Shape
    <3>2. CASE m = n
        BY <1>4, <3>1, <3>2 DEF Triggers
    <3>3. CASE m # n
        BY <1>4, <3>1, <3>3 DEF Clean
    <3> QED BY <3>1, <3>2, <3>3
  <2> QED BY <1>3, <2>1 DEF Marks, Clean, LastOnly, Mine
<1> QED BY <1>6, <1>7, <1>8 DEF Rest

LEMMA RestEndRun ==
    ASSUME Phases, Working, EndRun, SameDays(records', file'),
           entry = "loaded" => \A n \in selected : Clean(records', n),
           UNCHANGED <<entry, selected, failed, recovered>>, entry # "recovering",
           recovered = NoRecovery
    PROVE  Rest'
<1>1. task' = Idle /\ Idle.step = "idle"
    BY DEF EndRun, Idle
<1>2. Phases'
    BY <1>1 DEF Phases, Working, Starting
<1>3. Days'
    BY <1>1 DEF Days, SameDays
<1>4. Marks'
    BY <1>1 DEF Marks, Clean
<1> QED BY <1>2, <1>3, <1>4 DEF Rest

LEMMA RestAcquire == ASSUME Shape, Rest, Acquire PROVE Rest' /\ Kept
<1>1. /\ task = Idle /\ (failed => EndRun) /\ (EndRun \/ Reserves(records)) /\ waiting # <<>>
      /\ UNCHANGED <<clock, entry, selected, failed, records, file, recovered, reads>>
    BY AcquireIs DEF Acquire
<1>2. Idle.step = "idle" /\ ~Starting /\ entry # "recovering" /\ recovered = NoRecovery
    BY <1>1 DEF Idle, Rest, Phases, Starting
<1>k. Kept
    BY <1>1, Types DEF Kept
<1>3. CASE failed
  <2>1. task' = Idle /\ failed'
      BY <1>1, <1>3 DEF EndRun
  <2>2. Phases'
      BY <1>1, <1>2, <2>1 DEF Phases, Starting
  <2>3. Days' /\ Marks'
      BY <1>2, <2>1 DEF Days, Marks, Working
  <2> QED BY <1>k, <2>2, <2>3 DEF Rest
<1>4. CASE ~failed
  <2>1. Working /\ SameDays(records, file) /\ SameDays(records, file')
      BY <1>1, <1>2, <1>4 DEF Working, Rest, Days, SameDays
  <2>2. entry = "loaded" => \A n \in selected : Clean(records, n) /\ Clean(records', n)
      BY <1>1, <1>2, <1>4 DEF Rest, Marks
  <2>3. CASE EndRun
    <3>1. Phases /\ SameDays(records', file')
        BY <1>1, <2>1 DEF Rest, SameDays
    <3> QED BY <1>1, <1>2, <1>k, <2>1, <2>2, <2>3, <3>1, RestEndRun
  <2>4. CASE Reserves(records)
    <3>1. records \in Journals /\ records' = records
        BY <1>1 DEF Shape
    <3>2. PICK j \in Journals : j = records
        BY <3>1
    <3>3. Reserves(j) /\ SameDays(j, file') /\ records' = j
        BY <2>1, <2>4, <3>1, <3>2
    <3>4. entry = "loaded" => \A n \in selected : Clean(j, n)
        BY <2>2, <3>2
    <3> QED BY <1>1, <1>2, <1>k, <2>1, <3>3, <3>4, RestReserves
  <2> QED BY <1>1, <2>3, <2>4
<1> QED BY <1>3, <1>4

LEMMA RestOutcomeSaved == ASSUME Shape, Rest, OutcomeSaved PROVE Rest' /\ Kept
<1>1. /\ task.step = "finishing" /\ file' = task.journal /\ records' = task.journal
      /\ UNCHANGED <<clock, entry, selected, failed, recovered, waiting, reads>>
      /\ EndRun \/ Reserves(task.journal)
    BY OutcomeSavedIs
<1>2. Working /\ entry # "recovering" /\ recovered = NoRecovery
    BY <1>1, Underway DEF Rest
<1>3. entry = "loaded" => \A n \in selected : Clean(task.journal, n)
    BY <1>1, <1>2 DEF Rest, Marks, Working
<1>4. Kept
    BY <1>1, WrittenIsLater DEF Kept, Rest
<1>5. CASE EndRun
  <2>1. Phases /\ SameDays(records', file')
      BY <1>1 DEF Rest, SameDays
  <2>2. entry = "loaded" => \A n \in selected : Clean(records', n)
      BY <1>1, <1>3
  <2> QED BY <1>1, <1>2, <1>4, <1>5, <2>1, <2>2, RestEndRun
<1>6. CASE Reserves(task.journal)
  <2>1. PICK j \in Journals : j = task.journal
      BY Types
  <2> QED BY <1>1, <1>2, <1>3, <1>4, <1>6, <2>1, RestReserves DEF SameDays
<1> QED BY <1>1, <1>4, <1>5, <1>6

LEMMA RestReservationSaved == ASSUME Shape, Rest, ReservationSaved PROVE Rest' /\ Kept
<1>1. /\ task.step = "reserving" /\ file' = task.journal /\ records' = task.journal
      /\ UNCHANGED <<entry, selected, failed, recovered, waiting>>
      /\ IF Authorized(task.account) THEN task' = [task EXCEPT !.step = "reading"] ELSE task' = Idle
    BY DEF ReservationSaved
<1>2. Working /\ entry # "recovering" /\ recovered = NoRecovery
    BY <1>1, Underway DEF Rest
<1>3. Kept
    BY <1>1, WrittenIsLater DEF Kept, Rest
<1>4. entry = "loaded" => \A n \in selected : Clean(task.journal, n) \/ Mine(task.journal, n)
    BY <1>1, <1>2 DEF Rest, Marks, Working
<1>5. CASE Authorized(task.account)
  <2>1. /\ task'.step = "reading" /\ task'.journal = task.journal
        /\ task'.account = task.account /\ task'.trigger = task.trigger
      BY <1>1, <1>5 DEF Shape, Tasks
  <2>2. Phases'
      BY <1>1, <1>2 DEF Phases, Working, Starting
  <2>3. Days'
      BY <1>1, <2>1 DEF Days, SameDays
  <2>4. Marks'
      BY <1>1, <1>4, <2>1 DEF Marks, Clean, Mine, LastOnly
  <2> QED BY <1>3, <2>2, <2>3, <2>4 DEF Rest
<1>6. CASE ~Authorized(task.account)
  <2>1. task' = Idle /\ Idle.step = "idle"
      BY <1>1, <1>6 DEF Idle
  <2>2. entry = "loaded" => task.account \notin selected
      BY <1>2, <1>6 DEF Authorized, Closed, Working
  <2>3. entry = "loaded" => \A n \in selected : Clean(task.journal, n)
      BY <1>4, <2>2 DEF Mine
  <2>4. Phases'
      BY <1>1, <1>2, <2>1 DEF Phases, Working, Starting
  <2>5. Days'
      BY <1>1, <2>1 DEF Days, SameDays
  <2>6. Marks'
      BY <1>1, <2>1, <2>3 DEF Marks, Clean
  <2> QED BY <1>3, <2>4, <2>5, <2>6 DEF Rest
<1> QED BY <1>5, <1>6

LEMMA RestReadEnds == ASSUME Shape, Rest, NEW outcome \in Outcomes, ReadEnds(outcome) PROVE Rest' /\ Kept
<1>1. PICK status \in Statuses \ {"checking"}, k \in Journals :
        /\ k = [task.journal EXCEPT ![task.account].history = SetLast(@, status)]
        /\ task.step = "reading" /\ task' = [task EXCEPT !.step = "finishing", !.journal = k]
        /\ records' = IF records = task.journal THEN k ELSE records
        /\ UNCHANGED <<clock, entry, selected, failed, file, recovered, waiting, tried, reads>>
    BY ReadEndsIs
<1>2. Working /\ entry # "recovering" /\ recovered = NoRecovery
    BY <1>1, Underway DEF Rest
<1>3. /\ task.journal \in Journals /\ task.account \in Accounts /\ records = task.journal
    BY <1>1 DEF Shape, Tasks, Rest, Marks
<1>4. /\ SameDays(k, task.journal) /\ (LastOnly(task.journal, task.account) => Clean(k, task.account))
      /\ \A m \in Accounts : m # task.account => k[m] = task.journal[m]
    BY <1>1, <1>3, EndedIs
<1>5. /\ task'.step = "finishing" /\ task'.journal = k /\ records' = k
      /\ task'.account = task.account /\ task'.trigger = task.trigger
    BY <1>1, <1>3 DEF Shape, Tasks
<1>6. Phases'
    BY <1>1, <1>2 DEF Phases, Working, Starting
<1>7. SameDays(k, file)
    BY <1>1, <1>4 DEF SameDays, Rest, Days
<1>8. Days'
    BY <1>1, <1>5, <1>7 DEF Days, SameDays
<1>9. ASSUME entry = "loaded", NEW n \in selected PROVE Clean(k, n)
  <2>1. Clean(task.journal, n) \/ Mine(task.journal, n)
      BY <1>1, <1>2, <1>3, <1>9 DEF Rest, Marks, Working
  <2>2. n \in Accounts
      BY DEF Shape
  <2>3. CASE n = task.account
      BY <1>4, <2>1, <2>3 DEF Clean, Mine, LastOnly
  <2>4. CASE n # task.account
      BY <1>4, <2>1, <2>2, <2>4 DEF Clean, Mine
  <2> QED BY <2>3, <2>4
<1>10. Marks'
  <2>1. entry' = "loaded" => \A n \in selected' : Clean(records', n)
      BY <1>1, <1>5, <1>9
  <2>2. task'.step # "reserving" /\ task'.step # "reading" /\ records' = task'.journal
      BY <1>5
  <2> QED BY <2>1, <2>2 DEF Marks, Clean
<1>11. Kept
    BY <1>1, Types DEF Kept
<1> QED BY <1>6, <1>8, <1>10, <1>11 DEF Rest

LEMMA RestStopped == ASSUME Shape, Rest, SaveFails \/ CancelPress PROVE Rest' /\ Kept
<1>i. Idle.step = "idle"
    BY DEF Idle
<1>1. CASE SaveFails
  <2>1. /\ task.step # "idle" /\ file' \in {file, task.journal} /\ failed' = TRUE /\ task' = Idle
        /\ UNCHANGED <<entry, recovered>>
      BY <1>1 DEF SaveFails
  <2>2. Working /\ entry # "recovering" /\ recovered = NoRecovery
      BY <2>1, Underway DEF Rest
  <2>3. Rest'
      BY <1>i, <2>1, <2>2 DEF Rest, Phases, Days, Marks, Working, Starting
  <2>4. Kept
      BY <2>1, WrittenIsLater, Types DEF Kept, Rest
  <2> QED BY <2>3, <2>4
<1>2. CASE CancelPress
  <2>1. /\ task.step # "idle" /\ task.trigger = "manual" /\ file' \in {file, task.journal}
        /\ task' = Idle /\ UNCHANGED <<entry, failed, selected, records, recovered, waiting>>
      BY <1>2 DEF CancelPress
  <2>2. Working /\ entry # "recovering" /\ recovered = NoRecovery
      BY <2>1, Underway DEF Rest
  <2>3. SameDays(records, file') /\ Kept
      BY <2>1, <2>2, Types DEF Rest, Days, SameDays, Kept
  <2>4. entry = "loaded" => \A n \in selected : Clean(records, n)
      BY <2>1, <2>2 DEF Rest, Marks, Mine, Working
  <2>5. Phases'
      BY <2>1, <2>2 DEF Phases, Working, Starting
  <2>6. Days'
      BY <1>i, <2>1, <2>3 DEF Days, SameDays
  <2>7. Marks'
      BY <1>i, <2>1, <2>4 DEF Marks, Clean
  <2> QED BY <2>3, <2>5, <2>6, <2>7 DEF Rest
<1> QED BY <1>1, <1>2

LEMMA RestNext ==
    ASSUME ~EarlyPress, Shape, Rest, [Next]_vars
    PROVE  Rest' /\ Kept
<1>1. CASE Load \/ RecoverySaved \/ StartFails \/ Reload \/ Crash
    BY <1>1, RestStart
<1>2. CASE Acquire
    BY <1>2, RestAcquire
<1>3. CASE ReservationSaved
    BY <1>3, RestReservationSaved
<1>4. CASE \E outcome \in Outcomes : ReadEnds(outcome)
    BY <1>4, RestReadEnds
<1>5. CASE OutcomeSaved
    BY <1>5, RestOutcomeSaved
<1>6. CASE SaveFails \/ CancelPress
    BY <1>6, RestStopped
<1>7. CASE \/ Fire \/ Close \/ CloseEnds \/ Pass \/ UNCHANGED vars
           \/ \E n \in Accounts : Press(n) \/ Deselect(n)
    BY <1>7, RestOutside
<1> QED BY <1>1, <1>2, <1>3, <1>4, <1>5, <1>6, <1>7 DEF Next

(* A day is read once its reservation is on the disk, where no day before or  *)
(* on it is reserved again.                                                   *)
LEMMA ReadsNext ==
    ASSUME ~EarlyPress, Shape, Rest, ReadsAreReserved, [Next]_vars
    PROVE  ReadsAreReserved'
<1>1. Kept /\ Shape'
    BY RestNext, ShapeNext
<1>2. \A n \in Accounts : file[n].day \in Int /\ file'[n].day \in Int
  <2>1. file \in Journals /\ file' \in Journals
      BY <1>1 DEF Shape
  <2> QED BY <2>1 DEF Journals, Records
<1>3. CASE UNCHANGED reads
  <2> SUFFICES ASSUME NEW n \in Accounts, NEW d \in 1..LastDay
               PROVE  reads[n][d] <= 1 /\ (reads[n][d] # 0 => d <= file'[n].day)
      BY <1>3 DEF ReadsAreReserved
  <2>1. reads[n][d] <= 1 /\ (reads[n][d] # 0 => d <= file[n].day)
      BY DEF ReadsAreReserved
  <2>2. file[n].day <= file'[n].day
      BY <1>1 DEF Kept
  <2> QED BY <1>2, <2>1, <2>2
<1>4. CASE ReservationSaved /\ reads' # reads
  <2>1. /\ task.step = "reserving" /\ file' = task.journal /\ task.trigger = "scheduled"
        /\ reads' = [reads EXCEPT ![task.account][Day(task.at)] = @ + 1]
      BY <1>4 DEF ReservationSaved
  <2>2. PICK a \in Accounts, e \in 1..LastDay : a = task.account /\ e = Day(task.at)
      BY <2>1, DaysOfHours DEF Shape
  <2>3. file'[a].day = e /\ file[a].day < e
      BY <2>1, <2>2 DEF Rest, Days
  <2>4. reads[a] \in [1..LastDay -> Nat] /\ reads[a][e] \in Nat
      BY DEF Shape
  <2>5. reads[a][e] = 0
    <3>1. reads[a][e] # 0 => e <= file[a].day
        BY DEF ReadsAreReserved
    <3> QED BY <1>2, <2>3, <3>1
  <2>6. PICK row : row = [reads[a] EXCEPT ![e] = @ + 1]
      OBVIOUS
  <2>7. \A d \in 1..LastDay : row[d] = IF d = e THEN 1 ELSE reads[a][d]
    <3>1. PICK old \in [1..LastDay -> Nat] : old = reads[a]
        BY <2>4
    <3>2. row = [old EXCEPT ![e] = @ + 1]
        BY <2>6, <3>1
    <3>3. \A d \in 1..LastDay : row[d] = IF d = e THEN old[e] + 1 ELSE old[d]
        BY <3>2
    <3>4. old[e] = 0
        BY <2>5, <3>1
    <3> QED BY <3>1, <3>3, <3>4
  <2>8. \A n \in Accounts : reads'[n] = IF n = a THEN row ELSE reads[n]
      BY <2>1, <2>2, <2>6 DEF Shape
  <2> SUFFICES ASSUME NEW n \in Accounts, NEW d \in 1..LastDay
               PROVE  reads'[n][d] <= 1 /\ (reads'[n][d] # 0 => d <= file'[n].day)
      BY DEF ReadsAreReserved
  <2>9. reads[n][d] <= 1 /\ (reads[n][d] # 0 => d <= file[n].day)
      BY DEF ReadsAreReserved
  <2>10. file[n].day <= file'[n].day
      BY <1>1 DEF Kept
  <2>11. CASE n = a /\ d = e
      BY <2>3, <2>7, <2>8, <2>11
  <2>12. CASE ~ (n = a /\ d = e)
    <3>1. reads'[n][d] = reads[n][d]
        BY <2>7, <2>8, <2>12
    <3> QED BY <1>2, <2>9, <2>10, <3>1
  <2> QED BY <2>11, <2>12
<1>5. UNCHANGED reads \/ ReservationSaved
  <2> USE DEF managerVars, ghostVars, vars
  <2>1. CASE Acquire
      BY <2>1 DEF Acquire
  <2>2. CASE OutcomeSaved
      BY <2>2 DEF OutcomeSaved
  <2>3. CASE \E outcome \in Outcomes : ReadEnds(outcome)
      BY <2>3 DEF ReadEnds
  <2>4. CASE Load \/ RecoverySaved \/ StartFails \/ Reload \/ Crash
      BY <2>4 DEF Load, RecoverySaved, StartFails, Reload, Crash
  <2>5. CASE SaveFails \/ CancelPress
      BY <2>5 DEF SaveFails, CancelPress
  <2>6. CASE \/ Fire \/ Close \/ CloseEnds \/ Pass \/ UNCHANGED vars
             \/ \E n \in Accounts : Press(n) \/ Deselect(n)
      BY <2>6 DEF Fire, Close, CloseEnds, Pass, Press, Deselect
  <2> QED BY <2>1, <2>2, <2>3, <2>4, <2>5, <2>6 DEF Next
<1> QED BY <1>3, <1>4, <1>5

LEMMA Invariance == ASSUME ~EarlyPress PROVE Spec => []IInv
<1>1. Init => IInv
    BY ShapeInit, RestInit DEF IInv, Rest
<1>2. IInv /\ [Next]_vars => IInv'
    BY ShapeNext, RestNext, ReadsNext DEF IInv, Rest
<1> QED BY <1>1, <1>2, PTL DEF Spec

(* Whatever crashes, failing saves, presses and reloads come between, the     *)
(* cabinet is read at most once for a scheduled day, and a run that is shown  *)
(* as being checked is.                                                       *)
THEOREM DaysAreCheckedOnce == ASSUME ~EarlyPress PROVE Spec => []JournalIsTrue
<1>1. IInv => OncePerDay /\ CheckingMeansRunning
  <2> SUFFICES ASSUME IInv PROVE OncePerDay /\ CheckingMeansRunning
      OBVIOUS
  <2>1. OncePerDay
      BY DEF IInv, ReadsAreReserved, OncePerDay
  <2>2. CheckingMeansRunning
      BY DEF IInv, Marks, Clean, Mine, LastOnly, Begun, CheckingMeansRunning
  <2> QED BY <2>1, <2>2
<1> QED BY <1>1, Invariance, Typing, PTL DEF JournalIsTrue

(* No write, failing save, crash or restart forgets a reservation that had    *)
(* reached the disk.                                                          *)
THEOREM ReservationsAreKept == ASSUME ~EarlyPress PROVE Spec => ReservationsStay
<1>1. IInv /\ [Next]_vars => \A n \in Accounts : file[n].day <= file'[n].day
    BY RestNext DEF IInv, Rest, Kept
<1> QED BY <1>1, Invariance, PTL DEF Spec, ReservationsStay

=====================================================================================
