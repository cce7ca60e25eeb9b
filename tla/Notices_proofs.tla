----------------------------- MODULE Notices_proofs -----------------------------
(* Proofs about Documents, Reminders and MeterNotices, for any number of      *)
(* documents, windows, meters, years and restarts: no document is filed as    *)
(* seen before it was announced or noted as still to announce, and what the   *)
(* user dismissed stays dismissed.                                            *)
EXTENDS MCNotices, TLAPS

(* What a row claims to have seen is settled or noted as still to announce.   *)
Complete(r) == r.seen \subseteq settled \cup r.pending

(* A look that has its list has noted a row, and one that begins has loaded   *)
(* the records it will compare the list with.                                 *)
Shape ==
    /\ listed \subseteq Docs /\ settled \subseteq Docs /\ stops \in 0..MaxStops
    /\ life \in {"down", "up", "closed"}
    /\ records \in Rows \cup {NoRow, NotLoaded} /\ file \in Rows \cup {NoRow}
    /\ records \in Rows => file \in Rows
    /\ task \in Tasks \cup {NoTask} /\ orphan \in Tasks \cup {NoTask}
    /\ task # NoTask => records # NotLoaded
    /\ task # NoTask => IF task.step = "list" THEN task.row = NoRow ELSE task.row \in Rows
    /\ orphan # NoTask => orphan.step # "list" /\ orphan.row \in Rows

(* Every copy of the records is complete: in memory, in the file, in the look *)
(* under way and in the write of an instance that was closed.                 *)
Honest ==
    /\ records \in Rows => Complete(records)
    /\ file \in Rows => Complete(file)
    /\ Saving => Complete(task.row)
    /\ orphan # NoTask => Complete(orphan.row)

DocInv == Shape /\ Honest

-------------------------------------------------------------------------------
(* What is noted of a list is a row, complete once the documents of a         *)
(* baseline are settled.                                                      *)
LEMMA NotedComplete ==
    ASSUME ConstantsDiffer, listed \subseteq Docs, NEW old \in Rows \cup {NoRow}
    PROVE  /\ Noted(old) \in Rows
           /\ old = NoRow => Noted(old).seen \subseteq listed
           /\ old \in Rows /\ old.seen \subseteq settled \cup old.pending
                  => Noted(old).seen \subseteq settled \cup Noted(old).pending
BY DEF Noted, Rows, ConstantsDiffer

(* A row whose documents were announced has nothing left to announce.         *)
LEMMA DeliveredRow ==
    ASSUME NEW t \in Tasks, t.row \in Rows
    PROVE  /\ Delivered(t) \in Tasks /\ Delivered(t).step = "after"
           /\ Delivered(t).row \in Rows
           /\ Delivered(t).row.seen = t.row.seen /\ Delivered(t).row.pending = {}
BY DEF Delivered, Tasks, Rows

LEMMA DocBegins == ConstantsDiffer /\ Init => DocInv
BY DEF ConstantsDiffer, Init, DocInv, Shape, Honest, Saving

(* One step keeps every copy complete, action by action.                      *)
LEMMA DocStays ==
    ASSUME ConstantsDiffer, DocInv, [Next]_vars
    PROVE  DocInv'
<1> USE DEF DocInv, Shape, Honest, Complete, Saving, vars
<1>0. /\ NoRow \notin Rows /\ NotLoaded \notin Rows /\ NotLoaded # NoRow /\ NoTask \notin Tasks
      /\ MaxStops \in Nat
    BY DEF ConstantsDiffer
<1>1. CASE Appear
    BY <1>1 DEF Appear
<1>2. CASE Start
    BY <1>2 DEF Start
<1>3. CASE Close
  <2>1. stops' \in 0..MaxStops
      BY <1>0, <1>3 DEF Close
  <2> QED BY <1>0, <1>3, <2>1 DEF Close, Left, Tasks
<1>4. CASE CloseEnds
    BY <1>0, <1>4 DEF CloseEnds, Forget, Left, Tasks
<1>5. CASE Crash
  <2>1. stops' \in 0..MaxStops
      BY <1>0, <1>5 DEF Crash
  <2>2. \A r \in Writes : r \in Rows /\ r.seen \subseteq settled \cup r.pending
      BY <1>0 DEF Writes, Tasks
  <2> QED BY <1>0, <1>5, <2>1, <2>2 DEF Crash, Forget
<1>6. CASE OrphanLands
  <2>1. orphan \in Tasks /\ orphan.row \in Rows /\ orphan.row.pending \subseteq Docs
      BY <1>6 DEF OrphanLands, Rows
  <2>2. \/ orphan' = NoTask
        \/ orphan' = Delivered(orphan) /\ settled' = settled \cup orphan.row.pending
      BY <1>6 DEF OrphanLands
  <2> QED BY <1>0, <1>6, <2>1, <2>2, DeliveredRow DEF OrphanLands
<1>7. CASE Get
  <2>1. task' \in Tasks /\ task'.step = "list" /\ task'.row = NoRow
      BY <1>7 DEF Get, Asked, Tasks
  <2> QED BY <1>0, <1>7, <2>1 DEF Get
<1>8. CASE ListFails
    BY <1>8 DEF ListFails
<1>9. CASE Listed
  <2>1. CASE life = "up"
    <3>1. records \in Rows \cup {NoRow} /\ task \in Tasks /\ task.step = "list"
        BY <1>9 DEF Listed, Listing
    <3> DEFINE r == Noted(records)
    <3>2. /\ task' = [task EXCEPT !.step = "before", !.row = r]
          /\ settled' = IF records = NoRow THEN settled \cup listed ELSE settled
          /\ UNCHANGED <<listed, life, records, file, orphan, stops>>
        BY <1>9, <2>1 DEF Listed
    <3>3. r \in Rows /\ (records = NoRow => r.seen \subseteq listed)
          /\ (records \in Rows => r.seen \subseteq settled \cup r.pending)
        BY <3>1, NotedComplete
    <3> HIDE DEF r
    <3>4. task' \in Tasks /\ task'.row = r /\ task'.step = "before"
        BY <3>1, <3>2, <3>3 DEF Tasks
    <3> QED BY <1>0, <3>1, <3>2, <3>3, <3>4
  <2>2. CASE life # "up"
      BY <1>9, <2>2 DEF Listed
  <2> QED BY <2>1, <2>2
<1>10. CASE SavedBefore
  <2>1. task \in Tasks /\ task.row \in Rows /\ task.row.pending \subseteq Docs
      BY <1>10 DEF SavedBefore, Rows
  <2> QED BY <1>0, <1>10, <2>1, DeliveredRow DEF SavedBefore
<1>11. CASE FailedBefore
    BY <1>0, <1>11 DEF FailedBefore
<1>12. CASE SavedAfter
    BY <1>0, <1>12 DEF SavedAfter
<1>13. CASE FailedAfter
    BY <1>0, <1>13 DEF FailedAfter
<1>14. CASE UNCHANGED vars
    BY <1>14
<1> QED BY <1>1, <1>2, <1>3, <1>4, <1>5, <1>6, <1>7, <1>8, <1>9, <1>10, <1>11, <1>12, <1>13,
           <1>14 DEF Next

LEMMA DocInvariance == ASSUME ConstantsDiffer PROVE Spec => []DocInv
<1>1. Init => DocInv
    BY DocBegins
<1>2. DocInv /\ [Next]_vars => DocInv'
    BY DocStays
<1> QED BY <1>1, <1>2, PTL DEF Spec

(* Memory never claims what neither the file nor a write under way holds.     *)
THEOREM Typing == ASSUME ConstantsDiffer PROVE Spec => []TypeOK
<1>1. DocInv => TypeOK
    BY DEF DocInv, Shape, TypeOK
<1> QED BY <1>1, DocInvariance, PTL

(* A document is not filed as seen before it was announced, or noted as still *)
(* to announce, through crashes, failing saves, reloads and late writes.      *)
THEOREM NoneIsMissed == ASSUME ConstantsDiffer PROVE Spec => []NoDocumentMissed
<1>1. DocInv => NoDocumentMissed
    BY DEF DocInv, Shape, Honest, Complete, NoDocumentMissed, TypeOK
<1> QED BY <1>1, DocInvariance, PTL

-------------------------------------------------------------------------------
(* Reminders.  A tick that builds or saves a message does so for the present  *)
(* window, shows none meanwhile, and no record or write is of a later window. *)
Wants == rtask # None /\ rtask.step \in {"message", "save"}

Shaped ==
    /\ R!TypeOK
    /\ enabled \in BOOLEAN
    /\ acks # {} => rlife \in {"up", "closed"}
    /\ rlife \in {"down", "failed"} => record = None
    /\ rlife = "up" /\ rshown => record.period = clock.period \/ clock.phase = "closed"
    /\ Wants => /\ rlife = "up" => ~rshown
                /\ rtask.period = clock.period \/ clock.phase = "closed"
                /\ rtask.period <= clock.period
                /\ R!PeriodOf(rfile) <= rtask.period /\ R!PeriodOf(rorphan) <= rtask.period
    /\ rtask # None /\ rtask.step = "message" =>
           \/ R!PeriodOf(record) < rtask.period
           \/ record = [period |-> rtask.period, dismissed |-> FALSE]
    /\ rtask # None /\ rtask.step = "save" =>
           record = [period |-> rtask.period, dismissed |-> FALSE]

Dismissed(p) == [period |-> p, dismissed |-> TRUE]

(* A dismissal in the file is in memory too, or memory is of a later window,  *)
(* and so is the write a closed instance left behind.                         *)
Remembered ==
    /\ \A p \in R!Periods : rfile = Dismissed(p) =>
         /\ rlife \in {"up", "closed"} => record = Dismissed(p) \/ R!PeriodOf(record) > p
         /\ rorphan # None => R!PeriodOf(rorphan) > p
    /\ rorphan # None => ~rorphan.dismissed /\ R!PeriodOf(rorphan) >= R!PeriodOf(rfile)

(* A dismissal in memory is in the file, or somebody is about to save it.     *)
Handed ==
    rlife \in {"up", "closed"} /\ record # None /\ record.dismissed =>
        \/ rfile = record \/ unsaved \/ R!PeriodOf(rfile) > record.period
        \/ record.period \in acks \/ (rtask # None /\ rtask.step = "ack")

Reminded == Shaped /\ Remembered /\ Handed

LEMMA ReminderFacts ==
    ASSUME R!ReminderConstants
    PROVE  /\ None \notin R!Windows /\ None \notin R!Tasks /\ None \notin R!Periods
           /\ R!Periods = 1..MaxPeriod /\ MaxPeriod \in Nat \ {0} /\ MaxReminderStops \in Nat
           /\ \A r \in R!Windows : /\ r.period \in Nat /\ r.period > 0 /\ r.period \in R!Periods
                                   /\ R!PeriodOf(r) = r.period /\ r.dismissed \in BOOLEAN
                                   /\ r = [period |-> r.period, dismissed |-> r.dismissed]
           /\ R!PeriodOf(None) = 0
BY DEF R!ReminderConstants, R!Windows, R!Periods, R!PeriodOf

LEMMA RemindersBegin == R!ReminderConstants /\ R!Init => Reminded
<1> SUFFICES ASSUME R!ReminderConstants, R!Init PROVE Reminded
    OBVIOUS
<1>1. R!TypeOK
    BY ReminderFacts DEF R!Init, R!TypeOK, R!Records
<1> QED BY <1>1, ReminderFacts DEF R!Init, Reminded, Shaped, Remembered, Handed, Wants, Dismissed, R!Windows

LEMMA RemindersStay ==
    ASSUME R!ReminderConstants, Reminded, [R!Next]_(R!vars)
    PROVE  Reminded'
<1> USE ReminderFacts
<1>0. /\ R!TypeOK /\ Shaped /\ Remembered /\ Handed
    BY DEF Reminded, Shaped
<1> USE <1>0 DEF Reminded, Shaped, Remembered, Handed, Wants, Dismissed, R!TypeOK, R!PeriodOf,
                 R!Records, R!Tasks
<1>1. CASE R!Pass
    BY <1>1 DEF R!Pass, R!instance
<1>2. CASE R!SetOption
    BY <1>2 DEF R!SetOption, R!instance
<1>3. CASE R!Start
    BY <1>3 DEF R!Start
<1>4. CASE R!StartFails
    BY <1>4 DEF R!StartFails, R!instance
<1>5. CASE R!Close
    BY <1>5 DEF R!Close, R!instance
<1>6. CASE R!CloseEnds
    BY <1>6 DEF R!CloseEnds, R!Saving
<1>7. CASE R!Crash
    BY <1>7 DEF R!Crash, R!Saving
<1>8. CASE R!OrphanLands
    BY <1>8 DEF R!OrphanLands, R!instance
<1>9. CASE R!Tick
    BY <1>9 DEF R!Tick, R!Wanted, R!Withdraw
<1>10. CASE R!MessageBuilt
  <2>1. rtask \in R!Tasks /\ rtask.step = "message" /\ rtask.period \in R!Periods
      BY <1>10 DEF R!MessageBuilt
  <2>2. CASE rlife # "up"
      BY <1>10, <2>1, <2>2 DEF R!MessageBuilt
  <2>3. CASE rlife = "up"
    <3>1. PICK new : new = [period |-> rtask.period, dismissed |-> FALSE]
        OBVIOUS
    <3>2. /\ record' = new /\ new \in R!Windows
          /\ new.period = rtask.period /\ ~new.dismissed /\ R!PeriodOf(new) = rtask.period
        BY <1>10, <2>1, <2>3, <3>1 DEF R!MessageBuilt, R!Windows
    <3>3. /\ rtask' \in R!Tasks /\ rtask'.step = "save" /\ rtask'.period = rtask.period
          /\ UNCHANGED <<clock, enabled, rlife, rfile, rshown, rvisible, acks, rorphan, unsaved, rstops>>
        BY <1>10, <2>1, <2>3 DEF R!MessageBuilt
    <3>4. R!TypeOK'
        BY <2>1, <2>3, <3>2, <3>3
    <3>5. Shaped'
        BY <2>1, <2>3, <3>1, <3>2, <3>3, <3>4
    <3>6. R!PeriodOf(record) <= rtask.period /\ (record \in R!Windows /\ record.dismissed
              => record.period < rtask.period)
        BY <2>1
    <3>7. ASSUME NEW p \in R!Periods, rfile = Dismissed(p)
          PROVE  R!PeriodOf(new) > p
      <4>1. record = Dismissed(p) \/ R!PeriodOf(record) > p
          BY <2>3, <3>7
      <4>2. CASE record = Dismissed(p)
          BY <2>1, <3>2, <3>6, <4>2 DEF R!Windows
      <4>3. CASE R!PeriodOf(record) > p
        <5>1. R!PeriodOf(record) \in Nat /\ rtask.period \in Nat /\ p \in Nat
            BY <2>1
        <5>2. R!PeriodOf(new) = rtask.period /\ R!PeriodOf(record) <= rtask.period
            BY <3>2, <3>6
        <5> QED BY ONLY <4>3, <5>1, <5>2
      <4> QED BY <4>1, <4>2, <4>3
    <3>8. Remembered'
        BY <3>2, <3>3, <3>7
    <3>9. Handed'
        BY <3>2, <3>3
    <3> QED BY <3>5, <3>8, <3>9
  <2> QED BY <2>2, <2>3
<1>11. CASE R!Saved
  <2>0. rtask \in R!Tasks /\ rtask.step = "save" /\ rtask.period \in R!Periods
      BY <1>11 DEF R!Saved
  <2>4. record = [period |-> rtask.period, dismissed |-> FALSE]
      BY <2>0
  <2>1. record \in R!Windows /\ record.period = rtask.period /\ ~record.dismissed
      BY ONLY <2>0, <2>4 DEF R!Windows
  <2>2. /\ rfile' = record /\ rtask' = None /\ rorphan = None
        /\ UNCHANGED <<clock, enabled, rlife, record, acks, rorphan, unsaved, rstops>>
      BY <1>11 DEF R!Saved
  <2>3. IF rlife = "up" THEN rvisible' = rtask.period /\ rshown' = TRUE
        ELSE UNCHANGED <<rvisible, rshown>>
      BY <1>11 DEF R!Saved
  <2> QED BY <2>0, <2>1, <2>2, <2>3
<1>12. CASE R!SaveFails
    BY <1>12 DEF R!SaveFails, R!Saving
<1>13. CASE R!UserDismisses
  <2>1. CASE rlife = "up" /\ rshown
    <3>1. record \in R!Windows /\ record.period = rvisible
        BY <2>1
    <3>2. PICK new : new = [record EXCEPT !.dismissed = TRUE]
        OBVIOUS
    <3>3. /\ record' = new /\ new \in R!Windows
          /\ new.period = record.period /\ new.dismissed /\ R!PeriodOf(new) = record.period
          /\ new = [period |-> record.period, dismissed |-> TRUE]
        BY <1>13, <2>1, <3>1, <3>2 DEF R!UserDismisses, R!Windows
    <3>4. /\ rshown' = FALSE /\ rvisible' = None /\ acks' = acks \cup {record.period}
          /\ UNCHANGED <<clock, enabled, rlife, rfile, rtask, rorphan, unsaved, rstops>>
        BY <1>13, <2>1 DEF R!UserDismisses
    <3>5. R!TypeOK'
        BY <2>1, <3>1, <3>3, <3>4
    <3>6. Shaped'
        BY <2>1, <3>1, <3>3, <3>4, <3>5
    <3>7. ASSUME NEW p \in R!Periods, rfile = Dismissed(p)
          PROVE  new = Dismissed(p) \/ R!PeriodOf(new) > p
        BY <2>1, <3>1, <3>3, <3>7
    <3>8. Remembered'
        BY <3>3, <3>4, <3>7
    <3>9. Handed'
        BY <2>1, <3>1, <3>3, <3>4
    <3> QED BY <3>6, <3>8, <3>9
  <2>2. CASE ~(rlife = "up" /\ rshown)
      BY <1>13, <2>2 DEF R!UserDismisses
  <2> QED BY <2>1, <2>2
<1>14. CASE R!Acknowledge
    BY <1>14 DEF R!Acknowledge
<1>15. CASE R!AckSaved
    BY <1>15 DEF R!AckSaved
<1>16. CASE UNCHANGED R!vars
    BY <1>16 DEF R!vars, R!instance
<1> QED BY <1>1, <1>2, <1>3, <1>4, <1>5, <1>6, <1>7, <1>8, <1>9, <1>10, <1>11, <1>12, <1>13,
           <1>14, <1>15, <1>16 DEF R!Next

(* Nothing overwrites a saved dismissal or shows its window again, and a      *)
(* reload hands the last one over, since only a tick, whose record is not     *)
(* dismissed, may still be saving when close() ends.                          *)
LEMMA RemindersKeep ==
    ASSUME R!ReminderConstants, Reminded, [R!Next]_(R!vars)
    PROVE  R!KeepsDismissal /\ R!HandsOver
<1> USE ReminderFacts
<1>0. /\ R!TypeOK /\ Shaped /\ Remembered /\ Handed
    BY DEF Reminded, Shaped
<1>1. ASSUME NEW p \in R!Periods, rfile = Dismissed(p)
      PROVE  rfile' # [period |-> p, dismissed |-> FALSE]
  <2>1. \A r \in R!Windows : r = [period |-> p, dismissed |-> FALSE] => r.period = p /\ ~r.dismissed
      OBVIOUS
  <2>2. rfile' = [period |-> p, dismissed |-> FALSE] =>
            \/ rfile' = rfile
            \/ rfile' = record /\ rtask # None /\ rlife \in {"up", "closed"}
            \/ rfile' = rorphan /\ rorphan # None
      BY <1>0 DEF R!Next, R!vars, R!instance, R!Pass, R!SetOption, R!Start, R!StartFails, R!Close,
              R!CloseEnds, R!Crash, R!OrphanLands, R!Tick, R!MessageBuilt, R!Saved, R!SaveFails,
              R!UserDismisses, R!Acknowledge, R!AckSaved, R!Saving, R!TypeOK
  <2>3. rfile = [period |-> p, dismissed |-> TRUE] /\ R!PeriodOf(rfile) = p
      BY <1>1 DEF Dismissed, R!PeriodOf, R!Windows
  <2>4. \A r : r = [period |-> p, dismissed |-> FALSE] =>
            r \in R!Windows /\ R!PeriodOf(r) = p /\ r # Dismissed(p)
      BY DEF R!Windows, Dismissed
  <2>5. rlife \in {"up", "closed"} => record = Dismissed(p) \/ R!PeriodOf(record) > p
      BY <1>0, <1>1 DEF Remembered
  <2>6. rorphan # None => R!PeriodOf(rorphan) > p
      BY <1>0, <1>1 DEF Remembered
  <2>7. p \in Nat
      OBVIOUS
  <2> QED BY <1>1, <2>2, <2>4, <2>5, <2>6, <2>7
<1>2. ASSUME NEW p \in R!Periods, rfile = Dismissed(p), rvisible' = p
      PROVE  rvisible = p
  <2>1. rvisible' = rvisible \/ rvisible' = None \/ (R!Saved /\ rlife = "up" /\ rvisible' = rtask.period)
      BY <1>0 DEF R!Next, R!vars, R!instance, R!Pass, R!SetOption, R!Start, R!StartFails, R!Close,
              R!CloseEnds, R!Crash, R!OrphanLands, R!Tick, R!MessageBuilt, R!Saved, R!SaveFails,
              R!UserDismisses, R!Acknowledge, R!AckSaved, R!Withdraw
  <2>2. CASE R!Saved /\ rlife = "up" /\ rvisible' = rtask.period
    <3>1. record = [period |-> p, dismissed |-> FALSE]
        BY <1>0, <1>2, <2>2 DEF R!Saved, Shaped
    <3>2. record = Dismissed(p) \/ R!PeriodOf(record) > p
        BY <1>0, <1>2, <2>2 DEF Remembered
    <3>3. record \in R!Windows /\ record.period = p /\ ~record.dismissed /\ p \in Nat
        BY <3>1 DEF R!Windows
    <3> QED BY <3>2, <3>3 DEF Dismissed
  <2> QED BY <1>2, <2>1, <2>2
<1>3. R!KeepsDismissal
    BY <1>1, <1>2 DEF R!KeepsDismissal, Dismissed
<1>4. R!HandsOver
  <2> SUFFICES ASSUME rlife = "closed", rlife' = "down", rstops' = rstops, record # None,
                      record.dismissed
               PROVE  rfile = record \/ unsaved \/ R!PeriodOf(rfile) > record.period
      BY DEF R!HandsOver
  <2>1. R!CloseEnds
      BY <1>0 DEF R!Next, R!vars, R!instance, R!Pass, R!SetOption, R!Start, R!StartFails, R!Close,
              R!Crash, R!OrphanLands, R!Tick, R!MessageBuilt, R!Saved, R!SaveFails,
              R!UserDismisses, R!Acknowledge, R!AckSaved, R!TypeOK, R!ReminderConstants
  <2> QED BY <1>0, <2>1 DEF R!CloseEnds, Handed
<1> QED BY <1>3, <1>4

-------------------------------------------------------------------------------
(* Meter notices.  The number a copy of the records has is not newer than the *)
(* cabinet's, and a replacement it notes led to that number or an older one.  *)
Sound(r) ==
    r # None =>
      /\ r.serial # None => r.serial <= profile.serial
      /\ r.events["replacement"] # None =>
           /\ r.serial # None
           /\ r.events["replacement"].fingerprint \in M!Serials \X M!Serials
           /\ r.events["replacement"].fingerprint[2] <= r.serial

(* What a tick's copy has is the event in memory or another one, and what it  *)
(* has as dismissed is dismissed in memory.                                   *)
Carries(new) ==
    \A k \in M!Kinds : new.events[k] # None =>
      /\ new.events[k].dismissed => row # None /\ row.events[k] = new.events[k]
      /\ row # None /\ row.events[k] # None
           => \/ new.events[k] = row.events[k]
              \/ new.events[k].fingerprint # row.events[k].fingerprint

Loaded == mlife \in {"up", "closed"}

Copied ==
    /\ M!TypeOK
    /\ mshown \in [M!Kinds -> M!Fingerprints \cup {None}]
    /\ mvisible \in [M!Kinds -> M!Fingerprints \cup {None}]
    /\ late \in BOOLEAN
    /\ mlife = "down" => row = None /\ mshown = M!Nothing
    /\ saving # {} => row # None /\ Loaded
    /\ mtask # None => IF mtask.step = "dismissal" THEN mtask.row = row ELSE Carries(mtask.row)
    /\ Sound(row) /\ Sound(mfile) /\ Sound(morphan) /\ (mtask # None => Sound(mtask.row))

(* A dismissal in the file is in memory too, unless a late write brought it.  *)
Reread ==
    Loaded /\ ~late => \A k \in M!Kinds, f \in M!Fingerprints :
                         M!Held(mfile, k, f) => M!Held(row, k, f)

Noticed == Copied /\ Reread

LEMMA NoticeFacts ==
    ASSUME M!NoticeConstants
    PROVE  /\ None \notin M!Rows /\ None \notin M!Serials /\ None \notin M!Notes /\ None \notin M!Tasks
           /\ M!Serials = 0..MaxChanges /\ MaxChanges \in Nat
           /\ M!Years = 1..MaxYear /\ MaxYear \in Nat \ {0} /\ MaxStops \in Nat
           /\ M!Kinds = {"replacement", "verification"}
           /\ \A r \in M!Rows : /\ r.serial \in M!Serials \cup {None}
                                /\ r.events \in [M!Kinds -> M!Events]
           /\ \A n \in M!Notes : n.fingerprint \in M!Fingerprints /\ n.dismissed \in BOOLEAN
           /\ M!Events = {None} \cup M!Notes
           /\ M!Nothing \in [M!Kinds -> M!Events] /\ \A k \in M!Kinds : M!Nothing[k] = None
           /\ \A t \in M!Tasks : t.step \in {"tick", "dismissal"} /\ t.row \in M!Rows
BY DEF M!NoticeConstants, M!Rows, M!Serials, M!Notes, M!Tasks, M!Years, M!Kinds, M!Events, M!Nothing

LEMMA NoticesBegin == M!NoticeConstants /\ M!Init => Noticed
<1> SUFFICES ASSUME M!NoticeConstants, M!Init PROVE Noticed
    OBVIOUS
<1>1. M!TypeOK
    BY NoticeFacts DEF M!Init, M!TypeOK
<1>2. M!Nothing \in [M!Kinds -> M!Fingerprints \cup {None}]
    BY DEF M!Nothing
<1> QED BY <1>1, <1>2, NoticeFacts DEF M!Init, Noticed, Copied, Reread, Sound, Loaded

(* What is noted as replaced or due is an event of its own.                   *)
LEMMA UpdatedCarries ==
    ASSUME M!NoticeConstants, row \in M!Rows \cup {None}, Sound(row), NEW current \in BOOLEAN,
           profile \in [serial : M!Serials, verification : M!Years], year \in M!Years
    PROVE  M!Updated(current) \in M!Rows /\ Sound(M!Updated(current)) /\ Carries(M!Updated(current))
<1> USE NoticeFacts
<1>1. PICK was : was = IF row = None THEN [serial |-> None, events |-> M!Nothing] ELSE row
    OBVIOUS
<1>2. /\ was.serial \in M!Serials \cup {None} /\ was.events \in [M!Kinds -> M!Events]
      /\ \A k \in M!Kinds : was.events[k] # None => row # None /\ was = row
    BY <1>1
<1>3. was # None /\ Sound(was)
    BY <1>1 DEF Sound, M!Rows
<1>4. "replacement" \in M!Kinds /\ "verification" \in M!Kinds
    OBVIOUS
<1>5. PICK replaced : replaced = M!Replaced(was)
    OBVIOUS
<1>6. PICK due : due = M!DueFor(was)
    OBVIOUS
<1>7. profile.serial \in M!Serials /\ profile.verification \in M!Years
    OBVIOUS
<1>8. /\ replaced \in M!Events
      /\ replaced # None =>
           \/ replaced = was.events["replacement"]
           \/ /\ ~replaced.dismissed
              /\ replaced.fingerprint = <<was.serial, profile.serial>>
              /\ was.serial \in M!Serials /\ was.serial # profile.serial
  <2>1. CASE was.serial \notin {None, profile.serial} /\ "replacement" \in options
    <3>1. replaced = [fingerprint |-> <<was.serial, profile.serial>>, dismissed |-> FALSE]
        BY <1>5, <2>1 DEF M!Replaced, M!Noted
    <3>2. was.serial \in M!Serials
        BY <1>2, <2>1
    <3>3. <<was.serial, profile.serial>> \in M!Fingerprints
        BY <1>7, <3>2 DEF M!Fingerprints
    <3>4. replaced \in M!Notes
        BY <3>1, <3>3 DEF M!Notes
    <3> QED BY <2>1, <3>1, <3>2, <3>4
  <2>2. CASE ~(was.serial \notin {None, profile.serial} /\ "replacement" \in options)
    <3>1. replaced = was.events["replacement"]
        BY <1>5, <2>2 DEF M!Replaced
    <3> QED BY <1>2, <1>4, <3>1
  <2> QED BY <2>1, <2>2
<1>9. /\ due \in M!Events
      /\ due # None =>
           \/ due = was.events["verification"]
           \/ /\ ~due.dismissed
              /\ was.events["verification"] # None =>
                   was.events["verification"].fingerprint # due.fingerprint
  <2>1. PICK fingerprint : fingerprint = <<profile.serial, profile.verification, year>>
      OBVIOUS
  <2>2. fingerprint \in M!Fingerprints
      BY <1>7, <2>1 DEF M!Fingerprints
  <2>3. PICK noted : noted = [fingerprint |-> fingerprint, dismissed |-> FALSE]
      OBVIOUS
  <2>4. noted \in M!Notes /\ noted.fingerprint = fingerprint /\ ~noted.dismissed
      BY <2>2, <2>3 DEF M!Notes
  <2>5. \/ due = None \/ due = was.events["verification"]
        \/ due = noted /\ ~(was.events["verification"] # None
                            /\ was.events["verification"].fingerprint = fingerprint)
      BY <1>6, <2>1, <2>3 DEF M!DueFor, M!Noted
  <2> QED BY <1>2, <1>4, <2>4, <2>5
<1>10. PICK seen : seen = IF current
                          THEN [serial |-> profile.serial,
                                events |-> [replacement |-> replaced, verification |-> due]]
                          ELSE was
    OBVIOUS
<1>11. M!Updated(current) =
         [seen EXCEPT !.events = [k \in M!Kinds |-> IF k \in options THEN seen.events[k] ELSE None]]
    BY <1>1, <1>5, <1>6, <1>10 DEF M!Updated
<1>12. PICK new : new = M!Updated(current)
    OBVIOUS
<1>13. /\ new.serial = IF current THEN profile.serial ELSE was.serial
       /\ new.events \in [M!Kinds -> M!Events]
       /\ new.events["replacement"] # None =>
            new.events["replacement"] = IF current THEN replaced ELSE was.events["replacement"]
       /\ new.events["verification"] # None =>
            new.events["verification"] = IF current THEN due ELSE was.events["verification"]
       /\ new \in M!Rows
  <2>1. CASE current
    <3>1. seen = [serial |-> profile.serial, events |-> [replacement |-> replaced, verification |-> due]]
        BY <1>10, <2>1
    <3>2. new = [serial |-> profile.serial,
                 events |-> [k \in M!Kinds |-> IF k \in options THEN seen.events[k] ELSE None]]
        BY <1>11, <1>12, <3>1
    <3>3. seen.events["replacement"] = replaced /\ seen.events["verification"] = due
        BY <3>1
    <3>4. new.events \in [M!Kinds -> M!Events]
        BY <1>8, <1>9, <3>2, <3>3
    <3>5. new.serial = profile.serial /\ new \in M!Rows
        BY <1>7, <3>2, <3>4 DEF M!Rows
    <3>6. \A k \in M!Kinds : new.events[k] = IF k \in options THEN seen.events[k] ELSE None
        BY <3>2
    <3> QED BY <1>4, <2>1, <3>3, <3>4, <3>5, <3>6
  <2>2. CASE ~current
    <3>1. PICK kept : kept = [k \in M!Kinds |-> IF k \in options THEN was.events[k] ELSE None]
        OBVIOUS
    <3>2. kept \in [M!Kinds -> M!Events]
        BY <1>2, <3>1
    <3>3. was = [serial |-> was.serial, events |-> was.events]
        BY <1>1 DEF M!Rows
    <3>4. new = [serial |-> was.serial, events |-> kept]
        BY <1>10, <1>11, <1>12, <2>2, <3>1, <3>3
    <3>5. new.serial = was.serial /\ new.events = kept /\ new \in M!Rows
        BY <1>2, <3>2, <3>4 DEF M!Rows
    <3>6. \A k \in M!Kinds : kept[k] # None => kept[k] = was.events[k]
        BY <3>1
    <3> QED BY <1>4, <2>2, <3>2, <3>5, <3>6
  <2> QED BY <2>1, <2>2
<1>14. profile.serial \in Nat /\ (was.serial # None => was.serial \in Nat /\ was.serial <= profile.serial)
    BY <1>2, <1>3, <1>7 DEF Sound
<1>15. was.events["replacement"] # None =>
         /\ was.serial \in Nat /\ was.serial # None
         /\ was.events["replacement"].fingerprint \in M!Serials \X M!Serials
         /\ was.events["replacement"].fingerprint[2] \in Nat
         /\ was.events["replacement"].fingerprint[2] <= was.serial
    BY <1>2, <1>3, <1>14 DEF Sound
<1>16. Sound(new)
  <2>1. new.serial # None => new.serial <= profile.serial
      BY <1>13, <1>14
  <2>2. ASSUME new.events["replacement"] # None
        PROVE  /\ new.serial # None
               /\ new.events["replacement"].fingerprint \in M!Serials \X M!Serials
               /\ new.events["replacement"].fingerprint[2] <= new.serial
    <3>1. CASE new.events["replacement"] = was.events["replacement"]
      <4>1. /\ was.events["replacement"] # None /\ was.serial \in Nat /\ was.serial # None
            /\ was.serial <= profile.serial
            /\ new.serial = profile.serial \/ new.serial = was.serial
          BY <1>2, <1>13, <1>14, <1>15, <2>2, <3>1
      <4>2. new.serial # None
          BY <1>7, <4>1
      <4>3. PICK to : to = was.events["replacement"].fingerprint[2]
          OBVIOUS
      <4>4. to \in Nat /\ to <= was.serial
          BY <1>15, <4>1, <4>3
      <4>5. to <= new.serial
          BY ONLY <1>14, <4>1, <4>4
      <4> QED BY <1>15, <3>1, <4>1, <4>2, <4>3, <4>5
    <3>2. CASE new.events["replacement"] # was.events["replacement"]
      <4>1. current /\ new.events["replacement"] = replaced /\ new.serial = profile.serial
          BY <1>13, <2>2, <3>2
      <4>2. replaced.fingerprint = <<was.serial, profile.serial>> /\ was.serial \in M!Serials
          BY <1>8, <2>2, <3>2, <4>1
      <4> QED BY <1>7, <1>14, <4>1, <4>2
    <3> QED BY <3>1, <3>2
  <2> QED BY <2>1, <2>2 DEF Sound
<1>17. Carries(new)
  <2> SUFFICES ASSUME NEW k \in M!Kinds, new.events[k] # None
               PROVE  /\ new.events[k].dismissed => row # None /\ row.events[k] = new.events[k]
                      /\ row # None /\ row.events[k] # None
                           => \/ new.events[k] = row.events[k]
                              \/ new.events[k].fingerprint # row.events[k].fingerprint
      BY DEF Carries
  <2>1. CASE new.events[k] = was.events[k]
      BY <1>2, <2>1
  <2>2. CASE new.events[k] # was.events[k]
    <3>1. row # None => was = row
        BY <1>1
    <3>2. CASE k = "replacement"
      <4>1. new.events[k] = replaced /\ replaced # None /\ replaced # was.events["replacement"]
          BY <1>13, <2>2, <3>2
      <4>2. /\ ~replaced.dismissed /\ replaced.fingerprint = <<was.serial, profile.serial>>
            /\ was.serial \in M!Serials /\ was.serial # profile.serial
          BY <1>8, <4>1
      <4>3. was.serial < profile.serial /\ replaced.fingerprint[2] = profile.serial
          BY <1>14, <4>2
      <4>4. was.events["replacement"] # None =>
              was.events["replacement"].fingerprint # replaced.fingerprint
          BY <1>14, <1>15, <4>3
      <4>5. row # None => row.events[k] = was.events["replacement"]
          BY <3>1, <3>2
      <4>6. ~new.events[k].dismissed
          BY <4>1, <4>2
      <4>7. row # None /\ row.events[k] # None => row.events[k].fingerprint # new.events[k].fingerprint
          BY <4>1, <4>4, <4>5
      <4> QED BY <4>6, <4>7
    <3>3. CASE k = "verification"
      <4>1. new.events[k] = due /\ due # None /\ due # was.events["verification"]
          BY <1>13, <2>2, <3>3
      <4>2. row # None => row.events[k] = was.events["verification"]
          BY <3>1, <3>3
      <4>3. ~new.events[k].dismissed
          BY <1>9, <4>1
      <4>4. row # None /\ row.events[k] # None => row.events[k].fingerprint # new.events[k].fingerprint
          BY <1>9, <4>1, <4>2
      <4> QED BY <4>3, <4>4
    <3> QED BY <3>2, <3>3
  <2> QED BY <2>1, <2>2
<1> QED BY <1>12, <1>13, <1>16, <1>17

Marked(r, k) == [r EXCEPT !.events[k].dismissed = TRUE]

LEMMA MarkedRow ==
    ASSUME M!NoticeConstants, NEW r \in M!Rows, NEW k \in M!Kinds, r.events[k] # None
    PROVE  /\ Marked(r, k) \in M!Rows /\ Marked(r, k).serial = r.serial
           /\ \A j \in M!Kinds : j # k => Marked(r, k).events[j] = r.events[j]
           /\ Marked(r, k).events[k] = [fingerprint |-> r.events[k].fingerprint, dismissed |-> TRUE]
           /\ r.events[k].fingerprint \in M!Fingerprints
<1> USE NoticeFacts
<1>1. r = [serial |-> r.serial, events |-> r.events] /\ r.serial \in M!Serials \cup {None}
    BY DEF M!Rows
<1>2. r.events \in [M!Kinds -> M!Events] /\ r.events[k] \in M!Notes
    OBVIOUS
<1>3. PICK note : note = [r.events[k] EXCEPT !.dismissed = TRUE]
    OBVIOUS
<1>4. note = [fingerprint |-> r.events[k].fingerprint, dismissed |-> TRUE] /\ note \in M!Notes
    BY <1>2, <1>3 DEF M!Notes
<1>5. PICK events : events = [r.events EXCEPT ![k] = note]
    OBVIOUS
<1>6. /\ events \in [M!Kinds -> M!Events] /\ events[k] = note
      /\ \A j \in M!Kinds : j # k => events[j] = r.events[j]
    BY <1>2, <1>4, <1>5
<1>7. Marked(r, k) = [serial |-> r.serial, events |-> events]
  <2>1. Marked(r, k) = [r EXCEPT !.events = events]
      BY <1>3, <1>5 DEF Marked
  <2> QED BY <1>1, <2>1
<1>8. Marked(r, k) \in M!Rows /\ Marked(r, k).serial = r.serial /\ Marked(r, k).events = events
    BY <1>1, <1>6, <1>7 DEF M!Rows
<1> QED BY <1>2, <1>4, <1>6, <1>8

(* What a tick shows stands in the row it was given, undismissed.             *)
LEMMA ShowAllowed ==
    ASSUME M!NoticeConstants, NEW r \in M!Rows, M!Show(r)
    PROVE  /\ mshown' \in [M!Kinds -> M!Fingerprints \cup {None}] /\ mvisible' = mshown'
           /\ \A k \in M!Kinds : mshown'[k] # None =>
                /\ r.events[k] # None /\ r.events[k].fingerprint = mshown'[k]
                /\ ~r.events[k].dismissed /\ <<k, mshown'[k]>> \notin dismissals
                /\ mshown'[k] \in M!Fingerprints
<1> USE NoticeFacts
<1>1. r.events \in [M!Kinds -> M!Events]
    OBVIOUS
<1>2. PICK allowed : allowed = [k \in M!Kinds |-> IF M!Allowed(r, k)
                                                THEN r.events[k].fingerprint ELSE None]
    OBVIOUS
<1>3. mshown' = allowed /\ mvisible' = allowed
    BY <1>2 DEF M!Show
<1>4. \A k \in M!Kinds : M!Allowed(r, k) => r.events[k] \in M!Notes
    BY <1>1 DEF M!Allowed
<1>5. \A k \in M!Kinds : allowed[k] = IF M!Allowed(r, k) THEN r.events[k].fingerprint ELSE None
    BY <1>2
<1>6. allowed \in [M!Kinds -> M!Fingerprints \cup {None}]
    BY <1>2, <1>4
<1> QED BY <1>3, <1>4, <1>5, <1>6 DEF M!Allowed

LEMMA NoticesStay ==
    ASSUME M!NoticeConstants, Noticed, [M!Next]_(M!vars)
    PROVE  Noticed'
<1> USE NoticeFacts
<1>0. /\ M!TypeOK /\ Copied /\ Reread
    BY DEF Noticed, Copied
<1> USE <1>0 DEF Noticed, Copied, Reread, Loaded, M!TypeOK, Sound, M!Held
<1>1. CASE M!Outside
  <2>1. /\ profile' \in [serial : M!Serials, verification : M!Years]
        /\ profile.serial <= profile'.serial
        /\ year' \in M!Years /\ options' \subseteq M!Kinds
    <3>1. CASE M!Replace
        BY <3>1 DEF M!Replace
    <3>2. CASE M!NewYear
        BY <3>2 DEF M!NewYear
    <3>3. CASE M!SetOption
        BY <3>3 DEF M!SetOption
    <3> QED BY <1>1, <3>1, <3>2, <3>3 DEF M!Outside
  <2>2. UNCHANGED <<mlife, row, mfile, mshown, mvisible, dismissals, saving, mtask, morphan, late, mstops>>
      BY <1>1 DEF M!Outside
  <2>3. \A r \in M!Rows \cup {None} : Sound(r) => Sound(r)'
      BY <2>1
  <2>4. M!TypeOK'
      BY <2>1, <2>2
  <2>6. mtask' # None => IF mtask'.step = "dismissal" THEN mtask'.row = row' ELSE Carries(mtask.row)'
      BY <2>2 DEF Carries
  <2>7. Sound(row)' /\ Sound(mfile)' /\ Sound(morphan)' /\ (mtask' # None => Sound(mtask.row)')
      BY <2>2, <2>3
  <2>5. Copied'
      BY <2>2, <2>4, <2>6, <2>7
  <2> QED BY <2>2, <2>5
<1>2. CASE M!Start
  <2>1. /\ UNCHANGED <<profile, year, options, mfile, mshown, mvisible, dismissals, saving, mtask,
                        morphan, mstops>>
        /\ mlife = "down" /\ mlife' = "up" /\ row' = mfile /\ late' = FALSE
      BY <1>2 DEF M!Start, M!outside
  <2>2. mtask = None /\ mshown = M!Nothing /\ saving = {}
      BY <2>1
  <2>3. M!TypeOK'
      BY <2>1, <2>2
  <2>4. Copied'
      BY <2>1, <2>2, <2>3
  <2>5. Reread'
      BY <2>1
  <2> QED BY ONLY <2>4, <2>5
<1>3. CASE M!Close
    BY <1>3 DEF M!Close, M!outside, Carries
<1>4. CASE M!CloseEnds
    BY <1>4 DEF M!CloseEnds, M!outside, M!Forget
<1>5. CASE M!Crash
  <2>1. /\ UNCHANGED <<profile, year, options, late>> /\ mstops' \in 0..MaxStops
        /\ mlife' = "down" /\ mvisible' = M!Nothing /\ morphan' = None
        /\ row' = None /\ mshown' = M!Nothing /\ dismissals' = {} /\ saving' = {} /\ mtask' = None
      BY <1>5 DEF M!Crash, M!outside, M!Forget
  <2>2. /\ mfile' = mfile \/ (mfile' = morphan /\ morphan # None)
           \/ (mtask # None /\ mfile' = mtask.row)
      BY <1>5 DEF M!Crash, M!Landed
  <2>5. PICK new : new = mfile'
      OBVIOUS
  <2>6. new \in M!Rows \cup {None} /\ Sound(new)
      BY <2>2, <2>5
  <2>3. mfile' \in M!Rows \cup {None} /\ Sound(mfile)'
      BY <2>1, <2>5, <2>6
  <2>4. M!Nothing \in [M!Kinds -> M!Fingerprints \cup {None}]
      BY DEF M!Nothing
  <2> QED BY <2>1, <2>3, <2>4
<1>6. CASE M!OrphanLands
  <2>1. /\ UNCHANGED <<profile, year, options, mlife, row, mshown, mvisible, dismissals, saving,
                        mtask, mstops>>
        /\ morphan' = None /\ morphan # None /\ late' = (mlife # "down")
        /\ mfile' = mfile \/ mfile' = morphan
      BY <1>6 DEF M!OrphanLands, M!outside, M!Landed
  <2>2. mfile' \in M!Rows \cup {None} /\ Sound(mfile)'
      BY <2>1
  <2>3. M!TypeOK'
      BY <2>1, <2>2
  <2>4. mtask' # None => IF mtask'.step = "dismissal" THEN mtask'.row = row' ELSE Carries(mtask.row)'
      BY <2>1 DEF Carries
  <2>5. Copied'
      BY <2>1, <2>2, <2>3, <2>4
  <2>6. Reread'
      BY <2>1
  <2> QED BY ONLY <2>5, <2>6
<1>7. CASE M!Saved
  <2>1. /\ UNCHANGED <<profile, year, options, mlife, dismissals, saving, morphan, late, mstops>>
        /\ mtask \in M!Tasks /\ mtask.row \in M!Rows /\ mtask' = None
        /\ mfile' = mtask.row /\ row' = mtask.row
        /\ IF mlife = "up" THEN M!Show(mtask.row) ELSE UNCHANGED <<mshown, mvisible>>
      BY <1>7 DEF M!Saved, M!outside
  <2>2. PICK new : new = mtask.row
      OBVIOUS
  <2>3. new \in M!Rows /\ new # None /\ Sound(new) /\ Sound(new)' /\ mfile' = new /\ row' = new
      BY <2>1, <2>2
  <2>4. /\ mshown' \in [M!Kinds -> M!Fingerprints \cup {None}]
        /\ mvisible' \in [M!Kinds -> M!Fingerprints \cup {None}]
        /\ mlife = "up" => \A k \in M!Kinds : mshown'[k] # None =>
                              new.events[k] # None /\ new.events[k].fingerprint = mshown'[k]
    <3>1. CASE mlife = "up"
      <4>1. M!Show(new)
          BY <2>1, <2>2, <3>1
      <4> HIDE <1>0 DEF Copied, M!TypeOK
      <4> QED BY <2>3, <4>1, ShowAllowed
    <3>2. CASE mlife # "up"
        BY <2>1, <3>2
    <3> QED BY ONLY <3>1, <3>2
  <2>5. M!TypeOK'
      BY <2>1, <2>3, <2>4
  <2>6. Copied'
      BY <2>1, <2>3, <2>4, <2>5
  <2>7. Reread'
      BY <2>3
  <2> QED BY ONLY <2>6, <2>7
<1>8. CASE M!SaveFails
  <2>1. /\ UNCHANGED <<profile, year, options, mlife, row, mshown, mvisible, dismissals, saving,
                        morphan, late, mstops>>
        /\ mtask \in M!Tasks /\ mtask # None /\ mtask.row \in M!Rows /\ mtask' = None
        /\ mfile' = mfile \/ mfile' = mtask.row
      BY <1>8 DEF M!SaveFails, M!outside, M!Landed
  <2>2. mfile' \in M!Rows \cup {None} /\ Sound(mfile)'
      BY <2>1
  <2>3. M!TypeOK'
      BY <2>1, <2>2
  <2>4. Copied'
      BY <2>1, <2>2, <2>3
  <2>5. ASSUME Loaded, ~late, NEW k \in M!Kinds, NEW f \in M!Fingerprints, mfile' = mtask.row,
               M!Held(mtask.row, k, f)
        PROVE  M!Held(row, k, f)
    <3>1. PICK note : note = [fingerprint |-> f, dismissed |-> TRUE]
        OBVIOUS
    <3>2. note \in M!Notes /\ note.dismissed
        BY <3>1 DEF M!Notes
    <3>3. mtask.row.events[k] = note
        BY <2>5, <3>1
    <3>4. Carries(mtask.row) \/ mtask.row = row
        BY <2>1
    <3>5. row # None /\ row.events[k] = note
        BY <2>1, <3>2, <3>3, <3>4 DEF Carries
    <3> QED BY <3>1, <3>5
  <2>6. Reread'
    <3> SUFFICES ASSUME Loaded', ~late', NEW k \in M!Kinds, NEW f \in M!Fingerprints,
                        M!Held(mfile', k, f)
                 PROVE  M!Held(row, k, f)
        BY <2>1
    <3> QED BY <2>1, <2>5
  <2> QED BY ONLY <2>4, <2>6
<1>9. CASE M!DismissalSaved
    BY <1>9 DEF M!DismissalSaved, M!outside
<1>10. CASE UNCHANGED M!vars
    BY <1>10 DEF M!vars, M!outside, Carries
<1>11. ASSUME NEW current \in BOOLEAN, M!Tick(current)
       PROVE  Noticed'
  <2>1. /\ UNCHANGED <<profile, year, options, mlife, row, mfile, dismissals, saving, morphan,
                        late, mstops>>
        /\ mlife = "up" /\ mtask = None
      BY <1>11 DEF M!Tick, M!outside
  <2>2. PICK new : new = M!Updated(current)
      OBVIOUS
  <2>3. new \in M!Rows /\ Sound(new) /\ Carries(new)
      BY <1>11, <2>2, UpdatedCarries
  <2>4. CASE new = row
    <3>1. M!Show(row) /\ mtask' = mtask /\ row \in M!Rows
        BY <1>11, <2>2, <2>3, <2>4 DEF M!Tick
    <3>5. /\ mshown' \in [M!Kinds -> M!Fingerprints \cup {None}] /\ mvisible' = mshown'
          /\ \A k \in M!Kinds : mshown'[k] # None =>
               row.events[k] # None /\ row.events[k].fingerprint = mshown'[k]
      <4>1. M!Show(new)
          BY <2>4, <3>1
      <4> HIDE <1>0 DEF Copied, M!TypeOK
      <4> QED BY <2>3, <2>4, <4>1, ShowAllowed
    <3>2. M!TypeOK'
        BY <2>1, <2>3, <2>4, <3>1, <3>5
    <3>3. Copied'
        BY <2>1, <3>1, <3>2, <3>5
    <3>4. Reread'
        BY <2>1
    <3> QED BY ONLY <3>3, <3>4
  <2>5. CASE new # row
    <3>1. mtask' = [step |-> "tick", row |-> new] /\ UNCHANGED <<mshown, mvisible>>
        BY <1>11, <2>2, <2>5 DEF M!Tick
    <3>2. mtask' \in M!Tasks /\ mtask'.step = "tick" /\ mtask'.row = new
        BY <2>3, <3>1 DEF M!Tasks
    <3>3. Carries(mtask.row)' /\ Sound(mtask.row)'
        BY <2>1, <2>3, <3>2 DEF Carries
    <3>4. M!TypeOK'
        BY <2>1, <3>1, <3>2
    <3>5. Copied'
        BY <2>1, <3>1, <3>2, <3>3, <3>4
    <3>6. Reread'
        BY <2>1
    <3> QED BY ONLY <3>5, <3>6
  <2> QED BY ONLY <2>4, <2>5
<1>12. CASE M!UserDismisses
  <2>1. PICK k \in M!Kinds :
          /\ mvisible' = [mvisible EXCEPT ![k] = None]
          /\ IF mlife = "up" /\ mshown[k] # None
             THEN LET noted == <<k, row.events[k].fingerprint>>
                  IN  /\ mshown' = [mshown EXCEPT ![k] = None]
                      /\ dismissals' = dismissals \cup {noted}
                      /\ saving' = saving \cup {noted}
             ELSE UNCHANGED <<mshown, dismissals, saving>>
      BY <1>12 DEF M!UserDismisses
  <2>2. UNCHANGED <<profile, year, options, mlife, row, mfile, mtask, morphan, late, mstops>>
      BY <1>12 DEF M!UserDismisses, M!outside
  <2>3. mvisible' \in [M!Kinds -> M!Fingerprints \cup {None}]
      BY <2>1
  <2>4. mtask' # None => IF mtask'.step = "dismissal" THEN mtask'.row = row' ELSE Carries(mtask.row)'
      BY <2>2 DEF Carries
  <2>5. CASE mlife = "up" /\ mshown[k] # None
    <3>1. row \in M!Rows /\ row # None /\ row.events[k] \in M!Notes
        BY <2>5
    <3>2. PICK noted : noted = <<k, row.events[k].fingerprint>>
        OBVIOUS
    <3>3. /\ noted \in M!Kinds \X M!Fingerprints
          /\ mshown' = [mshown EXCEPT ![k] = None]
          /\ dismissals' = dismissals \cup {noted} /\ saving' = saving \cup {noted}
        BY <2>1, <2>5, <3>1, <3>2
    <3>4. /\ mshown' \in [M!Kinds -> M!Fingerprints \cup {None}]
          /\ \A j \in M!Kinds : mshown'[j] # None => mshown'[j] = mshown[j]
        BY <3>3
    <3>5. M!TypeOK'
        BY <2>2, <2>5, <3>1, <3>3, <3>4
    <3>6. Copied'
        BY <2>2, <2>3, <2>4, <2>5, <3>1, <3>4, <3>5
    <3> QED BY <2>2, <3>6
  <2>6. CASE ~(mlife = "up" /\ mshown[k] # None)
    <3>1. UNCHANGED <<mshown, dismissals, saving>>
        BY <2>1, <2>6
    <3>2. Copied'
        BY <2>2, <2>3, <2>4, <3>1
    <3> QED BY <2>2, <3>2
  <2> QED BY ONLY <2>5, <2>6
<1>13. CASE M!SaveDismissal
  <2>1. PICK s \in saving :
          /\ saving' = saving \ {s}
          /\ IF row.events[s[1]] = None \/ row.events[s[1]].fingerprint # s[2]
             THEN UNCHANGED <<row, mtask>>
             ELSE /\ row' = Marked(row, s[1])
                  /\ mtask' = [step |-> "dismissal", row |-> row']
      BY <1>13 DEF M!SaveDismissal, Marked
  <2>2. /\ UNCHANGED <<profile, year, options, mlife, mfile, mshown, mvisible, dismissals, morphan,
                        late, mstops>>
        /\ mlife \in {"up", "closed"} /\ mtask = None
      BY <1>13 DEF M!SaveDismissal, M!outside
  <2>3. row \in M!Rows /\ row # None /\ s[1] \in M!Kinds
      BY <2>1
  <2>4. CASE row.events[s[1]] = None \/ row.events[s[1]].fingerprint # s[2]
      BY <2>1, <2>2, <2>3, <2>4
  <2>5. CASE ~(row.events[s[1]] = None \/ row.events[s[1]].fingerprint # s[2])
    <3>1. PICK new : new = Marked(row, s[1])
        OBVIOUS
    <3>2. row' = new /\ mtask' = [step |-> "dismissal", row |-> new]
        BY <2>1, <2>5, <3>1
    <3>3. /\ new \in M!Rows /\ new.serial = row.serial
          /\ \A j \in M!Kinds : j # s[1] => new.events[j] = row.events[j]
          /\ new.events[s[1]] = [fingerprint |-> row.events[s[1]].fingerprint, dismissed |-> TRUE]
          /\ row.events[s[1]].fingerprint \in M!Fingerprints
        BY <2>3, <2>5, <3>1, MarkedRow
    <3>4. mtask' \in M!Tasks /\ mtask'.step = "dismissal" /\ mtask'.row = new
        BY <3>2, <3>3 DEF M!Tasks
    <3>5. \A j \in M!Kinds :
            /\ new.events[j] = None <=> row.events[j] = None
            /\ row.events[j] # None => new.events[j].fingerprint = row.events[j].fingerprint
      <4>1. new.events[s[1]] \in M!Notes /\ new.events[s[1]].fingerprint = row.events[s[1]].fingerprint
          BY <3>3 DEF M!Notes
      <4>2. new.events[s[1]] # None /\ row.events[s[1]] # None
          BY <2>5, <4>1
      <4> QED BY ONLY <3>3, <4>1, <4>2
    <3>6. Sound(new)' /\ new # None
      <4>1. "replacement" \in M!Kinds
          OBVIOUS
      <4>2. new # None
          BY <3>3
      <4>3. new.serial = row.serial /\ profile' = profile
          BY <2>2, <3>3
      <4>4. new.events["replacement"] # None =>
              /\ row.events["replacement"] # None
              /\ new.events["replacement"].fingerprint = row.events["replacement"].fingerprint
          BY ONLY <3>5, <4>1
      <4>5. Sound(row)
          OBVIOUS
      <4> QED BY <2>3, <4>2, <4>3, <4>4, <4>5
    <3>7. M!TypeOK'
      <4>1. saving' \subseteq dismissals'
          BY <2>1, <2>2
      <4>2. {row, mfile, morphan}' \subseteq M!Rows \cup {None}
          BY <2>2, <3>2, <3>3
      <4>3. \A k \in M!Kinds : mlife = "up" /\ mshown[k] # None =>
              new # None /\ new.events[k] # None /\ new.events[k].fingerprint = mshown[k]
        <5>1. \A k \in M!Kinds : mlife = "up" /\ mshown[k] # None =>
                row.events[k] # None /\ row.events[k].fingerprint = mshown[k]
            OBVIOUS
        <5> QED BY ONLY <3>5, <3>6, <5>1
      <4> QED BY <2>2, <3>2, <3>4, <4>1, <4>2, <4>3
    <3>8. Copied'
        BY <2>1, <2>2, <2>3, <3>2, <3>4, <3>6, <3>7
    <3>9. \A k \in M!Kinds, f \in M!Fingerprints : M!Held(row, k, f) => M!Held(new, k, f)
      <4> SUFFICES ASSUME NEW k \in M!Kinds, NEW f \in M!Fingerprints, M!Held(row, k, f)
                   PROVE  new.events[k] = [fingerprint |-> f, dismissed |-> TRUE]
          BY <3>6
      <4>1. row.events[k] = [fingerprint |-> f, dismissed |-> TRUE]
          OBVIOUS
      <4>2. row.events[k].fingerprint = f
          BY <4>1
      <4> QED BY <3>3, <4>1, <4>2
    <3>10. Reread'
        BY <2>2, <3>2, <3>9
    <3> QED BY ONLY <3>8, <3>10
  <2> QED BY ONLY <2>4, <2>5
<1> HIDE DEF Noticed, Copied, Reread, Loaded, M!TypeOK, Sound, M!Held
<1> QED BY ONLY [M!Next]_(M!vars),
           <1>1, <1>2, <1>3, <1>4, <1>5, <1>6, <1>7, <1>8, <1>9, <1>10, <1>11, <1>12, <1>13
        DEF M!Next

(* A tick shows what memory, or the copy it has just saved, has undismissed.  *)
LEMMA NoticesKeep ==
    ASSUME M!NoticeConstants, Noticed, [M!Next]_(M!vars)
    PROVE  M!KeepsDismissed
<1> USE NoticeFacts
<1> SUFFICES ASSUME NEW k \in M!Kinds, mvisible'[k] \notin {None, mvisible[k]}
             PROVE  /\ <<k, mvisible'[k]>> \notin dismissals
                    /\ M!Held(mfile, k, mvisible'[k]) => late
    BY DEF M!KeepsDismissed
<1>0. M!TypeOK /\ Copied /\ Reread
    BY DEF Noticed, Copied
<1>1. \/ \E current \in BOOLEAN : M!Tick(current) /\ M!Show(row) /\ M!Updated(current) = row
      \/ M!Saved /\ mlife = "up" /\ M!Show(mtask.row)
  <2>1. CASE M!UserDismisses
      BY <1>0, <2>1 DEF M!UserDismisses, Copied
  <2>2. CASE M!Crash
      BY <2>2 DEF M!Crash
  <2>3. CASE \E current \in BOOLEAN : M!Tick(current)
      BY <2>3 DEF M!Tick
  <2>4. CASE M!Saved
      BY <2>4 DEF M!Saved
  <2>5. CASE M!Outside \/ M!Start \/ M!Close \/ M!CloseEnds \/ M!OrphanLands
      BY <2>5 DEF M!Outside, M!Start, M!Close, M!CloseEnds, M!OrphanLands
  <2>6. CASE M!SaveFails \/ M!SaveDismissal \/ M!DismissalSaved \/ UNCHANGED M!vars
      BY <2>6 DEF M!SaveFails, M!SaveDismissal, M!DismissalSaved, M!vars
  <2> QED BY <2>1, <2>2, <2>3, <2>4, <2>5, <2>6 DEF M!Next
<1>2. ASSUME NEW r \in M!Rows, M!Show(r), mlife = "up",
             \A f \in M!Fingerprints : M!Held(row, k, f) => r.events[k] = None
                \/ r.events[k].dismissed \/ r.events[k].fingerprint # f
      PROVE  /\ <<k, mvisible'[k]>> \notin dismissals
             /\ M!Held(mfile, k, mvisible'[k]) => late
  <2>1. PICK f : f = mvisible'[k]
      OBVIOUS
  <2>2. /\ f \in M!Fingerprints /\ <<k, f>> \notin dismissals
        /\ r.events[k] # None /\ r.events[k].fingerprint = f /\ ~r.events[k].dismissed
      BY <1>2, <2>1, ShowAllowed
  <2>3. ~M!Held(row, k, f)
      BY <1>2, <2>2
  <2>4. M!Held(mfile, k, f) => late
      BY <1>0, <1>2, <2>2, <2>3 DEF Reread, Loaded
  <2> QED BY <2>1, <2>2, <2>4
<1>3. \A f \in M!Fingerprints : [fingerprint |-> f, dismissed |-> TRUE] \in M!Notes
    BY DEF M!Notes
<1>4. CASE \E current \in BOOLEAN : M!Tick(current) /\ M!Show(row) /\ M!Updated(current) = row
  <2>1. mlife = "up" /\ row \in M!Rows /\ M!Show(row)
    <3>1. PICK current \in BOOLEAN : M!Tick(current) /\ M!Show(row) /\ M!Updated(current) = row
        BY <1>4
    <3>2. row \in M!Rows \cup {None} /\ Sound(row) /\ year \in M!Years
          /\ profile \in [serial : M!Serials, verification : M!Years]
        BY <1>0 DEF Copied, M!TypeOK
    <3>3. row \in M!Rows
        BY <3>1, <3>2, UpdatedCarries
    <3> QED BY <3>1, <3>3 DEF M!Tick
  <2>2. \A f \in M!Fingerprints : M!Held(row, k, f) => row.events[k].dismissed
      BY <1>3 DEF M!Held
  <2> QED BY <1>2, <2>1, <2>2
<1>5. CASE M!Saved /\ mlife = "up" /\ M!Show(mtask.row)
  <2>1. PICK new : new = mtask.row
      OBVIOUS
  <2>2. new \in M!Rows /\ M!Show(new) /\ mlife = "up" /\ Carries(new)
      BY <1>0, <1>5, <2>1 DEF M!Saved, Copied, M!TypeOK
  <2>3. ASSUME NEW f \in M!Fingerprints, M!Held(row, k, f)
        PROVE  new.events[k] = None \/ new.events[k].dismissed \/ new.events[k].fingerprint # f
    <3>1. PICK note : note = [fingerprint |-> f, dismissed |-> TRUE]
        OBVIOUS
    <3>2. note \in M!Notes /\ note.dismissed /\ note.fingerprint = f
        BY <3>1 DEF M!Notes
    <3>3. row # None /\ row.events[k] = note /\ note # None
        BY <2>3, <3>1, <3>2 DEF M!Held
    <3> QED BY <2>2, <3>2, <3>3 DEF Carries
  <2> QED BY <1>2, <2>2, <2>3
<1> QED BY <1>1, <1>4, <1>5

(* What the user dismissed stays dismissed, in every behaviour of reminders   *)
(* and notices and for any number of windows, meters, years and restarts: a   *)
(* saved dismissal is not overwritten, neither is shown again while memory or *)
(* the file knows of it, and a reload hands the last one over.                *)
THEOREM DismissalsAreKept == R!Spec /\ M!Spec => DismissalsStay
<1>0. R!ReminderConstants /\ M!NoticeConstants
    BY NoticesAssumption
<1>1. R!Init => Reminded
    BY <1>0, RemindersBegin
<1>2. Reminded /\ [R!Next]_(R!vars) => Reminded'
    BY <1>0, RemindersStay
<1>3. M!Init => Noticed
    BY <1>0, NoticesBegin
<1>4. Noticed /\ [M!Next]_(M!vars) => Noticed'
    BY <1>0, NoticesStay
<1>5. Reminded /\ Noticed /\ [R!Next]_(R!vars) /\ [M!Next]_(M!vars) =>
        [/\ subject = "reminders" => R!TypeOK /\ R!KeepsDismissal /\ R!HandsOver
         /\ subject = "meters" => M!TypeOK /\ M!KeepsDismissed]_allvars
    BY <1>0, RemindersKeep, NoticesKeep DEF Reminded, Shaped, Noticed, Copied
<1> QED BY <1>1, <1>2, <1>3, <1>4, <1>5, PTL DEF R!Spec, M!Spec, DismissalsStay

(* Every behaviour of the composition is one of each module.                  *)
THEOREM CompositionRefines == MCSpec => R!Spec /\ M!Spec /\ Spec
<1>1. MCInit => R!Init /\ M!Init /\ Init
    BY DEF MCInit
<1>2. [MCNext]_allvars => [R!Next]_(R!vars) /\ [M!Next]_(M!vars) /\ [Next]_vars
    BY DEF MCNext, Reminding, Noticing, Looking, allvars, rvars, mvars, vars, R!vars, R!instance,
           M!vars, M!outside
<1> QED BY <1>1, <1>2, PTL DEF MCSpec, R!Spec, M!Spec, Spec
================================================================================
