------------------------------- MODULE Documents -------------------------------
(* New documents of an account (account_documents.py): those present at the   *)
(* first look are the baseline, later ones are announced once.  A look holds  *)
(* the lock through the request and two saves, around the announcement.       *)
EXTENDS Integers

CONSTANTS
    Docs,
    MaxStops,       \* bound: restarts and reloads
    NotLoaded,      \* self.records is None
    NoRow, NoTask

Rows == [seen : SUBSET Docs, pending : SUBSET Docs]

(* A look at the documents: it lists them, saves what it noted, announces,    *)
(* and saves that it did.                                                     *)
Tasks == [step : {"list", "before", "after"}, poll : BOOLEAN, row : Rows \cup {NoRow}]

(* What the theorems assume of the constants: the None of each place is none  *)
(* of the values found there.                                                 *)
ConstantsDiffer ==
    /\ MaxStops \in Nat
    /\ NoRow \notin Rows /\ NotLoaded \notin Rows \cup {NoRow} /\ NoTask \notin Tasks

VARIABLES
    listed,     \* what the cabinet lists
    life,       \* "down", "up" or "closed"
    records,    \* self.records, for the account
    file,       \* the Store
    task,       \* what holds self._lock
    orphan,     \* a look whose save goes on after its instance was closed
    settled,    \* ghost: baseline, announced, or met while the option was off
    stops

vars == <<listed, life, records, file, task, orphan, settled, stops>>

Init ==
    /\ listed = {}
    /\ life = "down" /\ records = NotLoaded /\ file = NoRow
    /\ task = NoTask /\ orphan = NoTask
    /\ settled = {} /\ stops = 0

-------------------------------------------------------------------------------
(* The cabinet                                                                *)

Appear ==
    /\ \E d \in Docs : listed' = IF d \in listed THEN listed \ {d} ELSE listed \cup {d}
    /\ UNCHANGED <<life, records, file, task, orphan, settled, stops>>

-------------------------------------------------------------------------------
(* start(), close(), which cancels the poll but not a card's request, and     *)
(* Home Assistant stopping                                                    *)

Start ==
    /\ life = "down" /\ life' = "up"
    /\ UNCHANGED <<listed, records, file, task, orphan, settled, stops>>

Saving == task # NoTask /\ task.step \in {"before", "after"}

Writes == {t.row : t \in {task, orphan} \ {NoTask}} \ {NoRow}

Forget == records' = NotLoaded /\ task' = NoTask

Left == IF Saving THEN task ELSE NoTask

Close ==
    /\ life = "up" /\ stops < MaxStops /\ stops' = stops + 1
    /\ life' = "closed"
    /\ IF task # NoTask /\ task.poll
       THEN orphan = NoTask /\ orphan' = Left /\ task' = NoTask
       ELSE UNCHANGED <<task, orphan>>
    /\ UNCHANGED <<listed, records, file, settled>>

(* Nothing waits for a card's request.                                        *)
CloseEnds ==
    /\ life = "closed" /\ (Saving => orphan = NoTask)
    /\ life' = "down"
    /\ orphan' = IF Saving THEN Left ELSE orphan
    /\ Forget
    /\ UNCHANGED <<listed, file, settled, stops>>

Crash ==
    /\ stops < MaxStops /\ stops' = stops + 1
    /\ file' \in {file} \cup Writes
    /\ life' = "down" /\ orphan' = NoTask
    /\ Forget
    /\ UNCHANGED <<listed, settled>>

Delivered(t) == [t EXCEPT !.step = "after", !.row.pending = {}]

(* A write of a closed instance ends; a card's request goes on from there.    *)
OrphanLands ==
    /\ orphan # NoTask
    /\ \/ file' = file /\ orphan' = NoTask /\ UNCHANGED settled
       \/ /\ file' = orphan.row
          /\ IF orphan.step = "before" /\ ~orphan.poll
             THEN settled' = settled \cup orphan.row.pending /\ orphan' = Delivered(orphan)
             ELSE orphan' = NoTask /\ UNCHANGED settled
    /\ UNCHANGED <<listed, life, records, task, stops>>

-------------------------------------------------------------------------------
(* get(); within a minute of the last answer it only repeats that.            *)

Asked == \E poll \in BOOLEAN : task' = [step |-> "list", poll |-> poll, row |-> NoRow]

GetOnce ==                                                          \* mutated
    /\ life = "up" /\ task = NoTask
    /\ records' = IF records = NotLoaded THEN file ELSE records
    /\ records' = NoRow /\ Asked
    /\ UNCHANGED <<listed, life, file, orphan, settled, stops>>

Get ==
    /\ life = "up" /\ task = NoTask
    /\ records' = IF records = NotLoaded THEN file ELSE records
    /\ Asked
    /\ UNCHANGED <<listed, life, file, orphan, settled, stops>>

Listing == task # NoTask /\ task.step = "list"

(* The token is refused twice, the connection breaks, the number of requests  *)
(* is limited, or the answer has another format.                              *)
ListFails ==
    /\ Listing /\ task' = NoTask
    /\ UNCHANGED <<listed, life, records, file, orphan, settled, stops>>

NotedDelivered(old) ==                                              \* mutated
    [seen |-> listed \cup IF old = NoRow THEN {} ELSE old.seen, pending |-> {}]

Noted(old) ==
    IF old = NoRow THEN [seen |-> listed, pending |-> {}]
    ELSE [seen |-> listed \cup old.seen, pending |-> old.pending \cup (listed \ old.seen)]

(* authorize() refuses once the manager is closed.                            *)
Listed ==
    /\ Listing
    /\ IF life = "up"
       THEN /\ task' = [task EXCEPT !.step = "before", !.row = Noted(records)]
            /\ settled' = IF records = NoRow THEN settled \cup listed ELSE settled
       ELSE task' = NoTask /\ UNCHANGED settled
    /\ UNCHANGED <<listed, life, records, file, orphan, stops>>

(* The baseline is saved; what is pending is announced, or forgotten while    *)
(* the account's option is off.                                               *)
SavedBefore ==
    /\ task # NoTask /\ task.step = "before"
    /\ file' = task.row
    /\ settled' = settled \cup task.row.pending
    /\ task' = Delivered(task) /\ records' = task'.row
    /\ UNCHANGED <<listed, life, orphan, stops>>

FailedBefore ==
    /\ task # NoTask /\ task.step = "before"
    /\ file' \in {file, task.row} /\ task' = NoTask
    /\ UNCHANGED <<listed, life, records, orphan, settled, stops>>

SavedAfter ==
    /\ task # NoTask /\ task.step = "after"
    /\ file' = task.row /\ task' = NoTask
    /\ UNCHANGED <<listed, life, records, orphan, settled, stops>>

FailedAfter ==
    /\ task # NoTask /\ task.step = "after"
    /\ file' \in {file, task.row} /\ task' = NoTask
    /\ records' = NotLoaded
    /\ UNCHANGED <<listed, life, orphan, settled, stops>>

Next ==
    \/ Appear
    \/ Start \/ Close \/ CloseEnds \/ Crash \/ OrphanLands
    \/ Get \/ ListFails \/ Listed
    \/ SavedBefore \/ FailedBefore \/ SavedAfter \/ FailedAfter

Spec == Init /\ [][Next]_vars

(* Polls come every half an hour; requests and writes end, and do not fail    *)
(* for ever.                                                                  *)
Fairness ==
    /\ WF_vars(Start) /\ WF_vars(CloseEnds) /\ WF_vars(OrphanLands)
    /\ SF_vars(Get) /\ SF_vars(Listed)
    /\ SF_vars(SavedBefore) /\ SF_vars(SavedAfter)

FairSpec == Spec /\ Fairness

-------------------------------------------------------------------------------
(* Memory never claims what neither the file nor a write under way holds      *)
(* (account_documents.py:225-229, :238-243).                                  *)
TypeOK ==
    /\ listed \subseteq Docs /\ settled \subseteq Docs /\ stops \in 0..MaxStops
    /\ life \in {"down", "up", "closed"}
    /\ records \in Rows \cup {NoRow, NotLoaded} /\ file \in Rows \cup {NoRow}
    /\ life = "up" /\ records \in Rows => file \in Rows

(* A document is not filed as seen before it was announced, or is noted as    *)
(* still to announce, through crashes, failing saves and reloads; only the    *)
(* baseline and what came while the option was off are exempt                 *)
(* (account_documents.py:221, :226, :239).  It includes TypeOK.               *)
NoDocumentMissed ==
    /\ TypeOK
    /\ \A row \in {file} \ {NoRow} : row.seen \subseteq settled \cup row.pending

(* Documents that stay listed are all settled in the end.                     *)
DocumentsSettle == life = "up" /\ listed # {} ~> listed \subseteq settled
================================================================================
