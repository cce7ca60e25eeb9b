----------------------------- MODULE ScheduleGroups -----------------------------
(* The outage group of one linked account (account_schedule.py), followed by  *)
(* account_schedule_updates.py: a choice the building no longer has is        *)
(* replaced by an unambiguous one, and a change by the operator is announced. *)
(* Options, building and cabinet change while a decision is being saved.      *)
EXTENDS Integers, FiniteSets

CONSTANTS
    Groups,
    MaxChanges,     \* bound: changes of the building and of the cabinet's answer
    MaxEdits,       \* bound: forms saved by the user
    MaxStops,       \* bound: reloads and restarts that no option asks for
    NoLink,         \* no building is linked, or it was disconnected
    NoRow, NoNotice, NoTask

Choices == SUBSET Groups
Automatic == {}         \* a link without groups
Links == Choices \cup {NoLink}
Rows == [link : Choices, groups : Choices]
Notices == [old : Choices, new : Choices]

(* Before a decision, and while it is saved.                                  *)
Tasks ==
    [step : {"run"}] \cup
    [step : {"save"}, edit : 0..MaxEdits, seen : BOOLEAN \X Choices \X BOOLEAN, link : Links,
     row : Rows \cup {NoRow}, notice : Notices \cup {NoNotice}]

(* What the theorems assume of the constants.                                 *)
FollowerConstants ==
    /\ IsFiniteSet(Groups) /\ {MaxChanges, MaxEdits, MaxStops} \subseteq Nat
    /\ \A groups \in Choices : groups # NoLink
    /\ NoRow \notin Rows /\ NoNotice \notin Notices /\ NoTask \notin Tasks

VARIABLES
    house,      \* the groups of the building; {} while it is unavailable
    cabinet,    \* the groups of a current answer of the cabinet; {} without one
    link,       \* the account's link in the options
    edits,      \* the identity of the options
    reload,     \* the entry is reloaded because its options changed
    life,       \* "down" or "up"
    records,    \* self.records, for the account
    file,       \* the Store
    needs,      \* self._needs_save
    again,      \* self._again
    task,       \* self._task
    notice,     \* the notification on the dashboard
    known,      \* ghost: the groups the user chose or was told of; {}: none yet
    changes, stops

source == <<house, cabinet, changes>>
options == <<link, edits, reload>>
store == <<records, file, needs>>
vars == <<source, options, store, life, again, task, notice, known, stops>>

Init ==
    /\ house = {} /\ cabinet = {} /\ changes = 0
    /\ link = NoLink /\ edits = 0 /\ reload = FALSE
    /\ records = NoRow /\ file = NoRow /\ needs = FALSE
    /\ life = "down" /\ again = FALSE /\ task = NoTask
    /\ notice = NoNotice /\ known = {} /\ stops = 0

-------------------------------------------------------------------------------
(* selection() and automatic_selection(); {} when nothing is selected.        *)

Unambiguous(groups) == IF Cardinality(groups) = 1 THEN groups ELSE {}

Assigned == Unambiguous(IF cabinet # {} THEN cabinet \cap house ELSE house)

InForce ==
    IF link = NoLink \/ house = {} THEN {}
    ELSE IF link = Automatic THEN Assigned
    ELSE IF link \subseteq house THEN link ELSE {}

(* The choice is gone, and another one is certain.                            *)
Replaced ==
    /\ link \notin {NoLink, Automatic} /\ house # {}
    /\ ~(link \subseteq house) /\ Assigned # {}

Resolved == IF Replaced THEN Assigned ELSE InForce

-------------------------------------------------------------------------------
(* _updated(), called for every change of the options, of the building's and  *)
(* of the account's coordinator                                               *)

Updated == life = "up" /\ again' = TRUE /\ task' = IF task = NoTask THEN [step |-> "run"] ELSE task

Noticed == IF life = "up" THEN Updated ELSE UNCHANGED <<again, task>>

SourceChanges ==
    /\ changes < MaxChanges /\ changes' = changes + 1
    /\ \/ house' \in Choices \ {house} /\ UNCHANGED cabinet
       \/ cabinet' \in Choices \ {cabinet} /\ UNCHANGED house
    /\ Noticed
    /\ UNCHANGED <<options, store, life, notice, known, stops>>

(* The coordinators poll on, and tell their listeners.                        *)
Poll ==
    /\ Updated
    /\ UNCHANGED <<source, options, store, life, notice, known, stops>>

(* A form is saved: this link, or other options.  Groups are chosen among     *)
(* those the building has now.                                                *)
SaveForm ==
    /\ edits < MaxEdits /\ edits' = edits + 1 /\ reload' = TRUE
    /\ link' \in {link, NoLink} \cup SUBSET house
    /\ known' = IF link' = link THEN known ELSE IF link' = NoLink THEN {} ELSE link'
    /\ Noticed
    /\ UNCHANGED <<source, store, life, notice, stops>>

-------------------------------------------------------------------------------
(* start(), and close() before a reload, or Home Assistant stopping           *)

Start ==
    /\ life = "down" /\ life' = "up"
    /\ \/ records' = file /\ UNCHANGED known
       \/ records' = NoRow /\ known' = {}                    \* it cannot be read
    /\ again' = TRUE /\ task' = [step |-> "run"]
    /\ UNCHANGED <<source, options, file, needs, notice, stops>>

Saving == task # NoTask /\ task.step = "save"

(* A cancelled write may be done all the same, before the next start() reads. *)
(* A decision that is saved and not announced is lost with the memory.        *)
Stop ==
    /\ life = "up" /\ life' = "down"
    /\ \/ reload /\ UNCHANGED <<stops, notice>>
       \/ stops < MaxStops /\ stops' = stops + 1 /\ notice' = NoNotice
    /\ reload' = FALSE
    /\ file' \in {file} \cup IF Saving THEN {task.row} ELSE {}
    /\ known' = IF needs THEN {} ELSE known
    /\ records' = NoRow /\ needs' = FALSE /\ again' = FALSE /\ task' = NoTask
    /\ UNCHANGED <<source, link, edits>>

-------------------------------------------------------------------------------
(* reconcile(): what is decided is saved first, and applied if nothing has    *)
(* changed meanwhile                                                          *)

PreviousOfAnyLink == records                                        \* mutated

(* A user's edit or another building is not a change by the operator.         *)
Previous == IF records # NoRow /\ records.link = link THEN records ELSE NoRow

Before ==
    IF Previous # NoRow THEN Previous.groups ELSE IF Replaced THEN link ELSE {}

NewLink == IF Replaced THEN Automatic ELSE link

Decided ==
    [step   |-> "save",
     edit   |-> edits,
     seen   |-> <<house = {}, Resolved, Replaced>>,
     link   |-> NewLink,
     row    |-> IF Resolved = {} THEN Previous ELSE [link |-> NewLink, groups |-> Resolved],
     notice |-> IF Resolved # {} /\ Before \notin {{}, Resolved}
                THEN [old |-> Before, new |-> Resolved] ELSE NoNotice]

Finished(repeat) ==
    /\ again' = repeat
    /\ task' = IF repeat THEN [step |-> "run"] ELSE NoTask

(* The forgotten baseline takes its notification with it.                     *)
Announce(d) ==
    notice' = IF d.notice # NoNotice THEN d.notice
              ELSE IF records # NoRow /\ d.row = NoRow THEN NoNotice
              ELSE notice

Told(d) ==
    known' = IF d.notice # NoNotice THEN d.notice.new
             ELSE IF known = {} /\ d.row # NoRow THEN d.row.groups
             ELSE known

ApplyOverForms(d) ==                                                \* mutated
    IF d.seen = <<house = {}, Resolved, Replaced>>
    THEN /\ records' = d.row /\ needs' = FALSE
         /\ link' = d.link /\ reload' = (reload \/ d.link # link)
         /\ Announce(d) /\ Told(d) /\ Finished(again \/ d.link # link)
    ELSE Finished(TRUE) /\ UNCHANGED <<records, link, reload, notice, known>> /\ needs' = TRUE

Apply(d) ==
    IF d.edit = edits /\ d.seen = <<house = {}, Resolved, Replaced>>
    THEN /\ records' = d.row /\ needs' = FALSE
         /\ link' = d.link /\ reload' = (reload \/ d.link # link)
         /\ Announce(d) /\ Told(d) /\ Finished(again \/ d.link # link)
    ELSE Finished(TRUE) /\ UNCHANGED <<records, link, reload, notice, known>> /\ needs' = TRUE

Run == task # NoTask /\ task.step = "run"

ReconcileRemembersFirst ==                                          \* mutated
    /\ Run
    /\ again' = FALSE
    /\ needs' = TRUE /\ (needs \/ Decided.row # records)
    /\ task' = Decided /\ records' = Decided.row
    /\ UNCHANGED <<source, options, file, life, notice, known, stops>>

ReconcileOnce ==                                                    \* mutated
    /\ Run
    /\ again' = FALSE
    /\ needs' = FALSE /\ Decided.row # records
    /\ task' = Decided
    /\ UNCHANGED <<source, options, records, file, life, notice, known, stops>>

Reconcile ==
    /\ Run
    /\ again' = FALSE
    /\ needs' = TRUE /\ (needs \/ Decided.row # records)
    /\ task' = Decided
    /\ UNCHANGED <<source, options, records, file, life, notice, known, stops>>

NothingToSave ==                                                    \* mutated
    /\ Run
    /\ ~needs /\ Decided.row = records
    /\ Finished(FALSE)
    /\ UNCHANGED <<source, options, store, life, notice, known, stops>>

(* The same, without a write.                                                 *)
ReconcileAtOnce ==
    /\ Run
    /\ ~needs /\ Decided.row = records
    /\ link' = NewLink /\ reload' = (reload \/ NewLink # link)
    /\ needs' = FALSE /\ Announce(Decided) /\ Told(Decided) /\ Finished(NewLink # link)
    /\ UNCHANGED <<source, edits, records, file, life, stops>>

Saved ==
    /\ Saving
    /\ file' = task.row
    /\ Apply(task)
    /\ UNCHANGED <<source, edits, life, stops>>

SaveFails ==
    /\ Saving /\ Finished(again)
    /\ UNCHANGED <<source, options, store, life, notice, known, stops>>

Next ==
    \/ SourceChanges \/ Poll \/ SaveForm \/ Start \/ Stop
    \/ Reconcile \/ ReconcileAtOnce \/ Saved \/ SaveFails

Spec == Init /\ [][Next]_vars

(* The polls go on, writes end and do not fail for ever, and a reload that is *)
(* asked for takes place.                                                     *)
Fairness ==
    /\ WF_vars(Start) /\ WF_vars(reload /\ Stop)
    /\ WF_vars(Poll) /\ WF_vars(Reconcile \/ ReconcileAtOnce)
    /\ SF_vars(Saved)

FairSpec == Spec /\ Fairness

-------------------------------------------------------------------------------
(* A decision that is not being saved, retried or repeated is in the file     *)
(* (account_schedule_updates.py:131-135, :147-150).                           *)
TypeOK ==
    /\ house \in Choices /\ cabinet \in Choices /\ link \in Links
    /\ edits \in 0..MaxEdits /\ changes \in 0..MaxChanges /\ stops \in 0..MaxStops
    /\ life \in {"down", "up"} /\ reload \in BOOLEAN /\ again \in BOOLEAN
    /\ records \in Rows \cup {NoRow} /\ file \in Rows \cup {NoRow}
    /\ known \in Choices /\ notice \in Notices \cup {NoNotice}
    /\ Saving => needs

(* Only the user changes the link, except that a choice which the building,   *)
(* at that very moment, no longer has gives way to the one that is certain: a *)
(* form saved during the write is never overwritten, and a choice that came   *)
(* back is kept (account_schedule_updates.py:138-145).                        *)
KeepsChoice ==
    link' # link /\ edits' = edits => Replaced /\ link' = Automatic

UserChoiceStands == [][KeepsChoice]_vars

(* A notification tells of a change by the operator: from what the user chose *)
(* or was told before, to what is in force now                                *)
(* (account_schedule_updates.py:102-103, :117, :126).                         *)
TellsNews ==
    notice' \notin {notice, NoNotice} =>
      /\ notice'.old # notice'.new
      /\ known \in {{}, notice'.old}
      /\ notice'.new = InForce'

NoticeIsNews == [][TellsNews]_vars

(* While the entry runs, the memory does not move on to other groups under    *)
(* the same link without a notification, through failing saves and forms      *)
(* (account_schedule_updates.py:126, :143-150).  A restart begins anew: a     *)
(* change that was saved (:134) but not yet announced (:163) when the entry   *)
(* stopped is not announced later.                                            *)
NoSilentChange ==
    life = "up" /\ records # NoRow /\ records.link = link /\ known # {}
        => records.groups = known

(* Once the source and the forms are left alone, the account follows: the     *)
(* link works wherever one is certain, and the groups in force are those of   *)
(* the baseline (account_schedule_updates.py:72, :131).                       *)
FollowsTheHouse ==
    <>[](~Replaced /\ (InForce # {} => records = [link |-> link, groups |-> InForce]))
================================================================================
