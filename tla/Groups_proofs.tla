------------------------------ MODULE Groups_proofs ------------------------------
(* Proofs about AccountLinks, CabinetGroups, Buildings and ScheduleGroups,    *)
(* for any number of dialogs, requests, entries, cabinets, accounts, groups,  *)
(* confirmations, forms and restarts: a confirmation writes at most once what *)
(* was reviewed, an account in use is not unlinked, what is known is of now,  *)
(* what a user chose stands, and what is notified is news.                    *)
EXTENDS MCGroups, FiniteSetTheorems, TLAPS

Reviews == [kind : Kinds, address : Addresses, expired : BOOLEAN, picked : BOOLEAN]

Shape ==
    /\ linked \in BOOLEAN /\ address \in Addresses /\ session \in Sessions
    /\ monitored \subseteq Entries /\ entities \subseteq Entries
    /\ identity \in [Flows -> Sessions \cup {Closed}]
    /\ review \in [Flows -> Reviews \cup {NoReview}]
    /\ calls \in [Calls -> CallRecords \cup {NoCall}]
    /\ confirms \in Nat /\ sent \in Nat

(* The lock is held by the one call that works.                               *)
Serving == \A c \in Calls : Running(c) /\ ~At(c, "queued") <=> lock = c

(* A call that works towards a change looked at the cabinet after the         *)
(* confirmation, when the address was the one reviewed; what a call without a *)
(* confirmation finds is only shown.                                          *)
Reviewed ==
    \A c \in Calls : Running(c) =>
        /\ address \in calls[c].since
        /\ calls[c].step \in {"token", "sent"} =>
              calls[c].change /\ calls[c].seen \in calls[c].since
        /\ calls[c].step = "found" => ~calls[c].change

(* Every write, and every call that may still write, is covered by a          *)
(* confirmation of its own.                                                   *)
Pending == {c \in Calls : Running(c) /\ calls[c].change /\ calls[c].step # "sent"}

Covered == sent + Cardinality(Pending) <= confirms

IInv == Shape /\ Serving /\ Reviewed /\ Covered

-------------------------------------------------------------------------------
(* A step of the rest of the system: no call moves.                           *)
Outside ==
    \/ CabinetChanges \/ SessionChanges
    \/ \E e \in Entries : Select(e) \/ Reload(e)
    \/ \E f \in Flows : Expire(f) \/ Pick(f) \/ CloseFlow(f) \/ ConfirmRefused(f)
    \/ UNCHANGED vars

LEMMA ShapeInit == LinkConstants /\ Init => Shape
BY DEF LinkConstants, Init, Shape, Addresses, Sessions

LEMMA ShapeOutside == ASSUME Shape, Outside PROVE Shape'
<1> USE DEF Shape, cabinet, entry, counters, vars, Changes
<1>1. CASE CabinetChanges \/ SessionChanges
    BY <1>1 DEF CabinetChanges, SessionChanges
<1>2. CASE \E e \in Entries : Select(e) \/ Reload(e)
    BY <1>2 DEF Select, Reload
<1>3. ASSUME NEW f \in Flows, Expire(f) \/ Pick(f) PROVE Shape'
  <2>1. review[f] \in Reviews
      BY <1>3 DEF Expire, Pick
  <2>2. \/ review' = [review EXCEPT ![f].expired = TRUE]
        \/ review' = [review EXCEPT ![f].picked = TRUE]
      BY <1>3 DEF Expire, Pick
  <2>3. review' \in [Flows -> Reviews \cup {NoReview}]
    <3>1. [review[f] EXCEPT !.expired = TRUE] \in Reviews
          /\ [review[f] EXCEPT !.picked = TRUE] \in Reviews
        BY <2>1 DEF Reviews
    <3> QED BY <2>2, <3>1
  <2> QED BY <1>3, <2>3 DEF Expire, Pick
<1>4. ASSUME NEW f \in Flows, CloseFlow(f) \/ ConfirmRefused(f) PROVE Shape'
    BY <1>4 DEF CloseFlow, ConfirmRefused
<1>5. CASE UNCHANGED vars
    BY <1>5
<1> QED BY <1>1, <1>2, <1>3, <1>4, <1>5 DEF Outside

LEMMA OutsideSteps ==
    ASSUME Outside
    PROVE  UNCHANGED <<address, calls, lock, confirms, sent>>
BY DEF Outside, CabinetChanges, SessionChanges, Select, Reload, Expire, Pick, CloseFlow,
       ConfirmRefused, cabinet, entry, counters, vars, Changes

(* A call is started for a dialog, with or without a confirmation.            *)
LEMMA Starting ==
    ASSUME LinkConstants, Shape, NEW f \in Flows, NEW c \in Calls, calls[c] = NoCall,
           NEW kind \in Kinds, NEW change \in BOOLEAN, NEW seen \in Addresses,
           Begin(f, c, kind, change, seen)
    PROVE  /\ calls' \in [Calls -> CallRecords \cup {NoCall}]
           /\ calls'[c] # NoCall /\ calls'[c].step = "queued" /\ calls'[c].change = change
           /\ address \in calls'[c].since
           /\ \A d \in Calls : d # c => calls'[d] = calls[d]
<1> DEFINE rec == [step |-> "queued", flow |-> f, kind |-> kind, change |-> change,
                   seen |-> seen, identity |-> session, expired |-> FALSE, since |-> {address}]
<1>1. calls' = [calls EXCEPT ![c] = rec]
    BY DEF Begin
<1>2. rec \in CallRecords
    BY DEF CallRecords, Steps, Shape
<1>3. rec.step = "queued" /\ rec.change = change /\ rec.since = {address} /\ rec # NoCall
    BY <1>2 DEF LinkConstants
<1> HIDE DEF rec
<1> QED BY <1>1, <1>2, <1>3 DEF Shape

(* A call moves on, keeping what it knows, or finds an account, or ends.      *)
Moves(c, step) ==
    /\ Running(c) /\ step \in Steps
    /\ calls' = [calls EXCEPT ![c].step = step]

FindsOut(c) ==
    /\ Running(c)
    /\ calls' = [calls EXCEPT ![c].step = "found", ![c].seen = address]

LEMMA Moving ==
    ASSUME LinkConstants, Shape, NEW c \in Calls, NEW step, Moves(c, step)
    PROVE  /\ calls' \in [Calls -> CallRecords \cup {NoCall}]
           /\ calls'[c] # NoCall /\ calls'[c].step = step
           /\ calls'[c].change = calls[c].change /\ calls'[c].since = calls[c].since
           /\ calls'[c].seen = calls[c].seen
           /\ \A d \in Calls : d # c => calls'[d] = calls[d]
<1>1. calls[c] \in CallRecords /\ step \in Steps
    BY DEF Moves, Running, Shape
<1>2. PICK rec : rec = [calls[c] EXCEPT !.step = step]
    OBVIOUS
<1>3. /\ rec \in CallRecords /\ rec.step = step
      /\ rec.change = calls[c].change /\ rec.since = calls[c].since /\ rec.seen = calls[c].seen
    BY <1>1, <1>2 DEF CallRecords
<1>4. calls' = [calls EXCEPT ![c] = rec]
    BY <1>2 DEF Moves
<1>5. rec # NoCall
    BY <1>3 DEF LinkConstants
<1> QED BY <1>3, <1>4, <1>5 DEF Shape

LEMMA FindingOut ==
    ASSUME LinkConstants, Shape, NEW c \in Calls, FindsOut(c)
    PROVE  /\ calls' \in [Calls -> CallRecords \cup {NoCall}]
           /\ calls'[c] # NoCall /\ calls'[c].step = "found"
           /\ calls'[c].change = calls[c].change /\ calls'[c].since = calls[c].since
           /\ \A d \in Calls : d # c => calls'[d] = calls[d]
<1>1. calls[c] \in CallRecords /\ address \in Addresses /\ "found" \in Steps
    BY DEF FindsOut, Running, Shape, Steps
<1>2. PICK rec : rec = [calls[c] EXCEPT !.step = "found", !.seen = address]
    OBVIOUS
<1>3. /\ rec \in CallRecords /\ rec.step = "found"
      /\ rec.change = calls[c].change /\ rec.since = calls[c].since
    BY <1>1, <1>2 DEF CallRecords
<1>4. calls' = [calls EXCEPT ![c] = rec]
    BY <1>2 DEF FindsOut
<1>5. rec # NoCall
    BY <1>3 DEF LinkConstants
<1> QED BY <1>3, <1>4, <1>5 DEF Shape

LEMMA Ending ==
    ASSUME LinkConstants, Shape, NEW c \in Calls, Ends(c)
    PROVE  /\ calls' \in [Calls -> CallRecords \cup {NoCall}]
           /\ calls'[c] = NoCall
           /\ \A d \in Calls : d # c => calls'[d] = calls[d]
BY DEF Ends, Shape

(* What one request of a dialog may do to its call, and to the lock.          *)
Starts(c) ==
    \E f \in Flows : Confirm(f, c) \/ \E kind \in Kinds : Ask(f, c, kind)

Works(c) ==
    \/ ExpireCall(c) \/ Lock(c) \/ Fails(c) \/ LoggedIn(c) \/ Listed(c) \/ LookedUp(c)
    \/ Found(c) \/ Send(c) \/ NotSent(c) \/ Answered(c)

LEMMA NextByActor ==
    ASSUME [Next]_vars
    PROVE  Outside \/ DirectoryChanges \/ \E c \in Calls : Starts(c) \/ Works(c)
BY DEF Next, Outside, Starts, Works

(* How a working call and the lock move, in the cases of Works.               *)
LEMMA WorkSteps ==
    ASSUME LinkConstants, Shape, Serving, NEW c \in Calls, Works(c)
    PROVE  /\ Running(c) /\ UNCHANGED <<address, confirms>>
           /\ \/ \E step \in Steps :
                    /\ Moves(c, step) /\ step # "queued" /\ calls[c].step # "sent"
                    /\ \/ calls[c].step = "queued" /\ lock = Nobody /\ lock' = c
                       \/ calls[c].step # "queued" /\ UNCHANGED lock
                    /\ step = "sent" => calls[c].step = "token" /\ sent' = sent + 1
                    /\ step # "sent" => UNCHANGED sent
                    /\ step = "token" => calls[c].change /\ calls[c].seen = address
                    /\ step = "found" => ~calls[c].change
              \/ FindsOut(c) /\ ~calls[c].change /\ calls[c].step # "queued" /\ UNCHANGED <<lock, sent>>
              \/ ExpireCall(c)
              \/ Ends(c) /\ UNCHANGED sent
              \/ calls[c].step = "queued" /\ calls' = [calls EXCEPT ![c] = NoCall] /\ UNCHANGED <<lock, sent>>
<1> USE DEF Moves, FindsOut, At, To, Steps, counters, cabinet, entry
<1>1. CASE ExpireCall(c)
    BY <1>1 DEF ExpireCall
<1>2. CASE Lock(c)
    BY <1>2 DEF Lock
<1>3. CASE Fails(c)
    BY <1>3 DEF Fails
<1>4. CASE LoggedIn(c)
    BY <1>4 DEF LoggedIn
<1>5. CASE Listed(c)
    BY <1>5 DEF Listed
<1>6. CASE LookedUp(c)
  <2>1. CASE ~calls[c].change
      BY <1>6, <2>1 DEF LookedUp
  <2>2. CASE calls[c].change /\ calls[c].seen = address
      BY <1>6, <2>2 DEF LookedUp
  <2>3. CASE calls[c].change /\ calls[c].seen # address
      BY <1>6, <2>3 DEF LookedUp
  <2> QED BY <2>1, <2>2, <2>3
<1>7. CASE Found(c)
    BY <1>7 DEF Found
<1>8. CASE Send(c)
    BY <1>8 DEF Send
<1>9. CASE NotSent(c)
    BY <1>9 DEF NotSent
<1>10. CASE Answered(c)
    BY <1>10 DEF Answered
<1> QED BY <1>1, <1>2, <1>3, <1>4, <1>5, <1>6, <1>7, <1>8, <1>9, <1>10 DEF Works

-------------------------------------------------------------------------------
(* The three ways the number of calls that may still write changes.           *)
LEMMA PendingIsFinite ==
    LinkConstants => IsFiniteSet(Pending) /\ Cardinality(Pending) \in Nat
BY FS_Subset, FS_CardinalityType DEF LinkConstants, Pending

LEMMA CoveredStill ==
    ASSUME LinkConstants, Shape, Covered, Pending' \subseteq Pending, sent' = sent, confirms' = confirms
    PROVE  Covered'
<1>1. IsFiniteSet(Pending) /\ Cardinality(Pending) \in Nat
    BY PendingIsFinite
<1>2. PICK after : after = Pending'
    OBVIOUS
<1>3. Cardinality(after) \in Nat /\ Cardinality(after) <= Cardinality(Pending)
    BY <1>1, <1>2, FS_Subset, FS_CardinalityType
<1> QED BY <1>1, <1>2, <1>3 DEF Covered, Shape

LEMMA CoveredMore ==
    ASSUME LinkConstants, Shape, Covered, NEW c, Pending' \subseteq Pending \cup {c},
           sent' = sent, confirms' = confirms + 1
    PROVE  Covered'
<1>1. IsFiniteSet(Pending) /\ Cardinality(Pending) \in Nat
    BY PendingIsFinite
<1>2. PICK after : after = Pending'
    OBVIOUS
<1>3. PICK more : more = Pending \cup {c}
    OBVIOUS
<1>4. IsFiniteSet(more) /\ Cardinality(more) \in Nat /\ Cardinality(more) <= Cardinality(Pending) + 1
    BY <1>1, <1>3, FS_AddElement, FS_CardinalityType
<1>5. Cardinality(after) \in Nat /\ Cardinality(after) <= Cardinality(more)
    BY <1>2, <1>3, <1>4, FS_Subset, FS_CardinalityType
<1> QED BY <1>1, <1>2, <1>4, <1>5 DEF Covered, Shape

LEMMA CoveredSent ==
    ASSUME LinkConstants, Shape, Covered, NEW c \in Pending, Pending' \subseteq Pending \ {c},
           sent' = sent + 1, confirms' = confirms
    PROVE  Covered'
<1>1. IsFiniteSet(Pending) /\ Cardinality(Pending) \in Nat
    BY PendingIsFinite
<1>2. PICK after : after = Pending'
    OBVIOUS
<1>3. PICK less : less = Pending \ {c}
    OBVIOUS
<1>4. IsFiniteSet(less) /\ Cardinality(less) = Cardinality(Pending) - 1
    BY <1>1, <1>3, FS_RemoveElement
<1>5. Cardinality(after) \in Nat /\ Cardinality(after) <= Cardinality(less)
    BY <1>2, <1>3, <1>4, FS_Subset, FS_CardinalityType
<1> QED BY <1>1, <1>2, <1>4, <1>5 DEF Covered, Shape

-------------------------------------------------------------------------------
LEMMA InvInit == LinkConstants /\ Init => IInv
<1> SUFFICES ASSUME LinkConstants, Init PROVE IInv
    OBVIOUS
<1>1. \A c \in Calls : calls[c] = NoCall
    BY DEF Init
<1>2. Serving /\ Reviewed
    BY <1>1 DEF Serving, Reviewed, Running, At, Init, LinkConstants
<1>3. Pending = {}
    BY <1>1 DEF Pending, Running
<1> QED BY <1>2, <1>3, ShapeInit, FS_EmptySet DEF IInv, Covered, Init

LEMMA InvOutside == ASSUME LinkConstants, IInv, Outside PROVE IInv'
<1>1. Shape' /\ UNCHANGED <<address, calls, lock, confirms, sent>>
    BY ShapeOutside, OutsideSteps DEF IInv
<1> QED BY <1>1 DEF IInv, Serving, Reviewed, Covered, Pending, Running, At

LEMMA InvDirectory == ASSUME LinkConstants, IInv, DirectoryChanges PROVE IInv'
<1>1. PICK a \in Addresses :
        /\ address' = a
        /\ calls' = [c \in Calls |->
             IF Running(c) THEN [calls[c] EXCEPT !.since = @ \cup {a}] ELSE NoCall]
    BY DEF DirectoryChanges
<1>2. UNCHANGED <<linked, session, monitored, entities, identity, review, lock, confirms, sent>>
    BY DEF DirectoryChanges, entry
<1>3. ASSUME NEW c \in Calls
      PROVE  /\ Running(c) <=> calls'[c] # NoCall
             /\ ~Running(c) => calls'[c] = NoCall
             /\ Running(c) => /\ calls'[c] \in CallRecords
                              /\ calls'[c].step = calls[c].step
                              /\ calls'[c].change = calls[c].change
                              /\ calls'[c].seen = calls[c].seen
                              /\ calls'[c].since = calls[c].since \cup {a}
  <2>1. CASE ~Running(c)
      BY <1>1, <2>1 DEF Running
  <2>2. CASE Running(c)
    <3>1. PICK rec : rec = [calls[c] EXCEPT !.since = @ \cup {a}]
        OBVIOUS
    <3>2. calls[c] \in CallRecords
        BY <2>2 DEF IInv, Shape, Running
    <3>3. /\ rec \in CallRecords /\ rec.step = calls[c].step /\ rec.change = calls[c].change
          /\ rec.seen = calls[c].seen /\ rec.since = calls[c].since \cup {a}
        BY <3>1, <3>2 DEF CallRecords
    <3>4. calls'[c] = rec
        BY <1>1, <2>2, <3>1
    <3> QED BY <2>2, <3>3, <3>4 DEF LinkConstants
  <2> QED BY <2>1, <2>2
<1>4. calls' \in [Calls -> CallRecords \cup {NoCall}]
  <2>1. \A c \in Calls : calls'[c] \in CallRecords \cup {NoCall}
      BY <1>3
  <2> QED BY <1>1, <2>1
<1>5. Shape'
    BY <1>1, <1>2, <1>4 DEF IInv, Shape
<1>6. Serving' /\ Reviewed'
    BY <1>1, <1>2, <1>3 DEF IInv, Serving, Reviewed, Running, At
<1>7. Pending' = Pending
    BY <1>3 DEF Pending, Running
<1>8. Covered'
    BY <1>2, <1>7, CoveredStill DEF IInv
<1> QED BY <1>5, <1>6, <1>8 DEF IInv

LEMMA InvStart == ASSUME LinkConstants, IInv, NEW c \in Calls, Starts(c) PROVE IInv'
<1> USE DEF IInv
<1>1. ASSUME NEW f \in Flows, NEW kind \in Kinds, Ask(f, c, kind) PROVE IInv'
  <2>1. /\ calls[c] = NoCall /\ Begin(f, c, kind, FALSE, address)
        /\ UNCHANGED <<linked, address, session, monitored, entities, identity, lock, confirms, sent>>
        /\ review' = [review EXCEPT ![f] = NoReview]
      BY <1>1 DEF Ask, cabinet, entry, counters
  <2>2. address \in Addresses
      BY DEF Shape
  <2>3. /\ calls' \in [Calls -> CallRecords \cup {NoCall}]
        /\ calls'[c] # NoCall /\ calls'[c].step = "queued" /\ calls'[c].change = FALSE
        /\ address \in calls'[c].since
        /\ \A d \in Calls : d # c => calls'[d] = calls[d]
      BY <2>1, <2>2, Starting
  <2>4. Shape'
      BY <2>1, <2>3 DEF Shape
  <2>5. Serving' /\ Reviewed'
      BY <2>1, <2>3 DEF Serving, Reviewed, Running, At
  <2>6. Pending' \subseteq Pending
      BY <2>1, <2>3 DEF Pending, Running
  <2> QED BY <2>1, <2>4, <2>5, <2>6, CoveredStill
<1>2. ASSUME NEW f \in Flows, Confirm(f, c) PROVE IInv'
  <2>1. /\ calls[c] = NoCall /\ Begin(f, c, review[f].kind, TRUE, review[f].address)
        /\ UNCHANGED <<linked, address, session, monitored, entities, identity, lock, sent>>
        /\ review[f] # NoReview /\ review' = [review EXCEPT ![f] = NoReview]
        /\ confirms' = confirms + 1
      BY <1>2 DEF Confirm, cabinet, entry
  <2>2. review[f].address \in Addresses /\ review[f].kind \in Kinds
      BY <2>1 DEF Shape, Reviews
  <2>3. /\ calls' \in [Calls -> CallRecords \cup {NoCall}]
        /\ calls'[c] # NoCall /\ calls'[c].step = "queued"
        /\ address \in calls'[c].since
        /\ \A d \in Calls : d # c => calls'[d] = calls[d]
      BY <2>1, <2>2, Starting
  <2>4. Shape'
      BY <2>1, <2>3 DEF Shape
  <2>5. Serving' /\ Reviewed'
      BY <2>1, <2>3 DEF Serving, Reviewed, Running, At
  <2>6. Pending' \subseteq Pending \cup {c}
      BY <2>3 DEF Pending, Running
  <2> QED BY <2>1, <2>4, <2>5, <2>6, CoveredMore
<1> QED BY <1>1, <1>2 DEF Starts

(* What else a working call changes: what is shown, and the cabinet.          *)
LEMMA WorkLeaves ==
    ASSUME Shape, NEW c \in Calls, Works(c)
    PROVE  /\ linked' \in BOOLEAN /\ review' \in [Flows -> Reviews \cup {NoReview}]
           /\ UNCHANGED <<session, monitored, entities, identity>>
<1> USE DEF Shape, cabinet, entry, counters
<1>1. CASE Found(c)
  <2>1. calls[c] \in CallRecords
      BY <1>1 DEF Found, At, Running
  <2>2. calls[c].kind \in Kinds /\ calls[c].seen \in Addresses
      BY <2>1 DEF CallRecords
  <2>3. \A picked \in {FALSE, calls[c].kind = "link"} :
          [kind |-> calls[c].kind, address |-> calls[c].seen,
           expired |-> FALSE, picked |-> picked] \in Reviews
      BY <2>2 DEF Reviews
  <2> QED BY <1>1, <2>3 DEF Found
<1>2. CASE Answered(c)
    BY <1>2 DEF Answered
<1>3. CASE Lock(c) \/ Fails(c) \/ ExpireCall(c)
    BY <1>3 DEF Lock, Fails, ExpireCall
<1>4. CASE LoggedIn(c) \/ Listed(c) \/ LookedUp(c)
    BY <1>4 DEF LoggedIn, Listed, LookedUp
<1>5. CASE Send(c) \/ NotSent(c)
    BY <1>5 DEF Send, NotSent
<1> QED BY <1>1, <1>2, <1>3, <1>4, <1>5 DEF Works

LEMMA InvWork == ASSUME LinkConstants, IInv, NEW c \in Calls, Works(c) PROVE IInv'
<1> USE DEF IInv
<1>1. Running(c) /\ UNCHANGED <<address, confirms>>
    BY WorkSteps
<1>2. /\ linked' \in BOOLEAN /\ review' \in [Flows -> Reviews \cup {NoReview}]
      /\ UNCHANGED <<session, monitored, entities, identity>>
    BY WorkLeaves
<1>3. ASSUME NEW step \in Steps, Moves(c, step), step # "queued",
             \/ calls[c].step = "queued" /\ lock = Nobody /\ lock' = c
             \/ calls[c].step # "queued" /\ UNCHANGED lock,
             calls[c].step # "sent",
             step = "sent" => calls[c].step = "token" /\ sent' = sent + 1,
             step # "sent" => UNCHANGED sent,
             step = "token" => calls[c].change /\ calls[c].seen = address,
             step = "found" => ~calls[c].change
      PROVE  IInv'
  <2>1. /\ calls' \in [Calls -> CallRecords \cup {NoCall}]
        /\ calls'[c] # NoCall /\ calls'[c].step = step
        /\ calls'[c].change = calls[c].change /\ calls'[c].since = calls[c].since
        /\ calls'[c].seen = calls[c].seen
        /\ \A d \in Calls : d # c => calls'[d] = calls[d]
      BY <1>3, Moving
  <2>2. Shape'
      BY <1>1, <1>2, <1>3, <2>1 DEF Shape
  <2>3. Serving'
      BY <1>1, <1>3, <2>1 DEF Serving, Running, At, LinkConstants
  <2>4. Reviewed'
      BY <1>1, <1>3, <2>1 DEF Reviewed, Running
  <2>5. CASE step = "sent"
    <3>1. c \in Pending /\ Pending' \subseteq Pending \ {c}
        BY <1>1, <1>3, <2>1, <2>5 DEF Pending, Running, Reviewed
    <3> QED BY <1>1, <1>3, <2>2, <2>3, <2>4, <2>5, <3>1, CoveredSent
  <2>6. CASE step # "sent"
    <3>1. Pending' \subseteq Pending
        BY <1>1, <1>3, <2>1 DEF Pending, Running
    <3> QED BY <1>1, <1>3, <2>2, <2>3, <2>4, <2>6, <3>1, CoveredStill
  <2> QED BY <2>5, <2>6
<1>4. ASSUME FindsOut(c), ~calls[c].change, calls[c].step # "queued", UNCHANGED <<lock, sent>>
      PROVE  IInv'
  <2>1. /\ calls' \in [Calls -> CallRecords \cup {NoCall}]
        /\ calls'[c] # NoCall /\ calls'[c].step = "found"
        /\ calls'[c].change = calls[c].change /\ calls'[c].since = calls[c].since
        /\ \A d \in Calls : d # c => calls'[d] = calls[d]
      BY <1>4, FindingOut
  <2>2. Shape'
      BY <1>1, <1>2, <1>4, <2>1 DEF Shape
  <2>3. Serving' /\ Reviewed'
      BY <1>1, <1>4, <2>1 DEF Serving, Reviewed, Running, At
  <2>4. Pending' \subseteq Pending
      BY <1>4, <2>1 DEF Pending, Running
  <2> QED BY <1>1, <1>4, <2>2, <2>3, <2>4, CoveredStill
<1>5. CASE ExpireCall(c)
  <2>1. PICK rec : rec = [calls[c] EXCEPT !.expired = TRUE]
      OBVIOUS
  <2>2. calls[c] \in CallRecords
      BY <1>1 DEF Running, Shape
  <2>3. /\ rec \in CallRecords /\ rec.step = calls[c].step /\ rec.change = calls[c].change
        /\ rec.since = calls[c].since /\ rec.seen = calls[c].seen
      BY <2>1, <2>2 DEF CallRecords
  <2>4. rec # NoCall
      BY <2>3 DEF LinkConstants
  <2>5. calls' = [calls EXCEPT ![c] = rec] /\ UNCHANGED <<lock, sent>>
      BY <1>5, <2>1 DEF ExpireCall, counters
  <2>6. Shape'
      BY <1>1, <1>2, <2>3, <2>5 DEF Shape
  <2>7. calls'[c] = rec /\ \A d \in Calls : d # c => calls'[d] = calls[d]
      BY <2>5 DEF Shape
  <2>8. Serving' /\ Reviewed'
      BY <1>1, <2>3, <2>4, <2>5, <2>7 DEF Serving, Reviewed, Running, At
  <2>9. Pending' \subseteq Pending
      BY <1>1, <2>3, <2>7 DEF Pending, Running
  <2> QED BY <1>1, <2>5, <2>6, <2>8, <2>9, CoveredStill
<1>6. ASSUME \/ Ends(c)
             \/ calls[c].step = "queued" /\ calls' = [calls EXCEPT ![c] = NoCall] /\ UNCHANGED lock,
             UNCHANGED sent
      PROVE  IInv'
  <2>1. /\ calls' \in [Calls -> CallRecords \cup {NoCall}]
        /\ calls'[c] = NoCall /\ \A d \in Calls : d # c => calls'[d] = calls[d]
      BY <1>6 DEF Ends, Shape
  <2>2. Shape'
      BY <1>1, <1>2, <1>6, <2>1 DEF Shape
  <2>3. Serving'
      BY <1>1, <1>6, <2>1 DEF Serving, Running, At, Ends, Release, LinkConstants
  <2>4. Reviewed'
      BY <1>1, <2>1 DEF Reviewed, Running
  <2>5. Pending' \subseteq Pending
      BY <2>1 DEF Pending, Running
  <2> QED BY <1>1, <1>6, <2>2, <2>3, <2>4, <2>5, CoveredStill
<1> QED BY <1>3, <1>4, <1>5, <1>6, WorkSteps

LEMMA Invariance == ASSUME LinkConstants PROVE Spec => []IInv
<1>1. Init => IInv
    BY InvInit
<1>2. ASSUME IInv, [Next]_vars PROVE IInv'
    BY <1>2, NextByActor, InvOutside, InvDirectory, InvStart, InvWork
<1>3. IInv /\ [Next]_vars => IInv'
    BY <1>2
<1> QED BY <1>1, <1>3, PTL DEF Spec

(* However many requests, dialogs and changes by others there are: the lock   *)
(* is held by the call that works, no confirmation writes twice, and what is  *)
(* written was reviewed.                                                      *)
THEOREM ConfirmationsWriteOnce == ASSUME LinkConstants PROVE Spec => []ConfirmedOnce
<1>1. IInv => ConfirmedOnce
  <2> SUFFICES ASSUME IInv PROVE ConfirmedOnce
      OBVIOUS
  <2>1. TypeOK
      BY DEF IInv, Shape, Serving, TypeOK
  <2>2. OneWritePerConfirmation
    <3>1. LinkConstants => Cardinality(Pending) \in Nat
        BY PendingIsFinite
    <3> QED BY <3>1 DEF IInv, Shape, Covered, OneWritePerConfirmation
  <2>3. WritesAreReviewed
      BY DEF IInv, Reviewed, WritesAreReviewed, At
  <2> QED BY <2>1, <2>2, <2>3 DEF ConfirmedOnce
<1> QED BY <1>1, Invariance, PTL

(* No step sends the unlinking of an account that an entry monitors or has    *)
(* entities of, nor a change from a dialog that is closed or of another       *)
(* session.                                                                   *)
THEOREM UsedStaysLinked == ASSUME LinkConstants PROVE Spec => UnlinkedWhenUnused
<1>1. ASSUME IInv, [Next]_vars PROVE LeavesUsed
  <2> SUFFICES ASSUME NEW c \in Calls, Sends, At(c, "token"), At(c, "sent")'
               PROVE  /\ calls[c].kind = "unlink" => monitored = {} /\ entities = {}
                      /\ identity[calls[c].flow] = session
      BY DEF LeavesUsed
  <2>1. PICK d \in Calls : Works(d)
      BY <1>1, NextByActor, OutsideSteps DEF Sends, Starts, Ask, Confirm, DirectoryChanges, counters
  <2>2. Send(d)
      BY <2>1 DEF Sends, Works, ExpireCall, Lock, Fails, LoggedIn, Listed, LookedUp, Found,
                  NotSent, Answered, counters
  <2>3. d = c
      BY <1>1, <2>2 DEF Send, To, At, IInv, Shape
  <2> QED BY <2>2, <2>3 DEF Send, Authorized, Known, Unused
<1>2. IInv /\ [Next]_vars => LeavesUsed
    BY <1>1
<1> QED BY <1>2, Invariance, PTL DEF Spec, UnlinkedWhenUnused

-------------------------------------------------------------------------------
(* An instance has the operators of FiniteSets as its own; they are the same. *)
LEMMA SameCount == \A s : B!Cardinality(s) = Cardinality(s) /\ S!Cardinality(s) = Cardinality(s)
BY DEF B!Cardinality, S!Cardinality, Cardinality

LEMMA SameFinite == \A s : S!IsFiniteSet(s) <=> IsFiniteSet(s)
BY DEF S!IsFiniteSet, IsFiniteSet

(* CabinetGroups: what a refresh has gone over is about the data of now, and  *)
(* so is everything when none runs.  An update in between sets again, and the *)
(* refresh starts over.                                                       *)
Current(n) == results[n] # None => C!Available(n) /\ results[n].of = snapshot[n]

Refreshed ==
    /\ C!TypeOK
    /\ asked \in C!Tasks \cup {None}
    /\ C!Asking => asked.number \in C!Accounts
    /\ C!ListenersAreTold /\ C!IdleIsCurrent
    /\ C!Asking /\ ~again => \A n \in 1..(asked.number - 1) : Current(n)

LEMMA RefreshedInit == ASSUME C!GroupConstants, C!Init PROVE Refreshed
<1>1. \A n \in C!Accounts : C!Get(n) = "unavailable"
    BY DEF C!Init, C!Get, C!Available
<1>2. ~C!Asking
    BY DEF C!Init, C!Asking
<1>0. 0 \in 0..MaxPolls /\ 0 \in 0..MaxRefusals /\ 0 \in 0..MaxStops /\ 0 \in 0..0
    BY DEF C!GroupConstants
<1>3. C!TypeOK
    BY <1>0, <1>2 DEF C!Init, C!TypeOK, C!GroupConstants, C!Missing
<1>4. C!IdleIsCurrent
    BY DEF C!Init, C!IdleIsCurrent
<1>5. C!ListenersAreTold
    BY <1>1 DEF C!Init, C!ListenersAreTold
<1> QED BY <1>2, <1>3, <1>4, <1>5 DEF C!Init, Refreshed

(* How a refresh goes on from an account, with results that are typed and,    *)
(* unless it starts over, current before it.                                  *)
LEMMA GoesOn ==
    ASSUME C!GroupConstants, Refreshed, NEW t \in C!Tasks, NEW from \in 1..(Number + 1),
           NEW found \in [C!Accounts -> C!Results \cup {None}],
           C!Proceed(t, from, found), UNCHANGED C!world,
           ~again => \A n \in 1..(from - 1) :
                         found[n] # None => C!Available(n) /\ found[n].of = snapshot[n]
    PROVE  /\ asked' \in C!Tasks \cup {None}
           /\ results' \in [C!Accounts -> C!Results \cup {None}]
           /\ issue \in BOOLEAN => issue' \in BOOLEAN
           /\ again' \in BOOLEAN
           /\ C!Asking' => /\ asked'.number \in C!Accounts /\ asked'.number >= from
                           /\ asked'.step = "object" => tokens[asked'.number] # "none"
                           /\ asked'.step # "groups"
           /\ C!Asking' /\ ~again' => \A n \in 1..(asked'.number - 1) : Current(n)'
           /\ C!IdleIsCurrent'
<1>0. /\ Number \in Nat /\ None \notin C!Tasks /\ polls \in Nat /\ polls <= MaxPolls /\ MaxPolls \in Nat
      /\ snapshot \in [C!Accounts -> 0..polls] /\ again \in BOOLEAN
      /\ tokens \in [C!Accounts -> {"none", "good", "revoked"}]
    BY DEF C!GroupConstants, Refreshed, C!TypeOK
<1>1. \A skipped : C!Without(found, skipped) \in [C!Accounts -> C!Results \cup {None}]
    BY DEF C!Without
<1>2. CASE \E n \in C!Ready(from, t.limited) :
        /\ \A m \in C!Ready(from, t.limited) : n <= m
        /\ asked' = C!Asked([t EXCEPT !.attempted = TRUE], n)
        /\ results' = C!Without(found, from..(n - 1))
        /\ UNCHANGED <<issue, again>>
  <2> PICK n \in C!Ready(from, t.limited) :
        /\ asked' = C!Asked([t EXCEPT !.attempted = TRUE], n)
        /\ results' = C!Without(found, from..(n - 1))
        /\ UNCHANGED <<issue, again>>
      BY <1>2
  <2>1. n \in C!Accounts /\ n >= from
      BY <1>0 DEF C!Ready, C!Accounts
  <2>2. /\ asked' \in C!Tasks /\ asked'.number = n /\ asked'.step \in {"login", "object"}
        /\ asked'.step = "object" => tokens[n] # "none"
    <3>1. /\ snapshot[n] \in 0..MaxPolls
          /\ n \in 0..Number
        BY <1>0, <2>1 DEF C!Accounts
    <3> QED BY <3>1, <2>1 DEF C!Asked, C!Tasks, C!Steps
  <2>3. ASSUME ~again, NEW k \in 1..(n - 1) PROVE Current(k)'
    <3>1. k \in C!Accounts /\ (k < from \/ k \in from..(n - 1))
        BY <2>1, <1>0 DEF C!Accounts
    <3>2. C!Available(k)' = C!Available(k) /\ snapshot'[k] = snapshot[k]
        BY DEF C!world, C!Available
    <3>3. CASE k < from
        BY <3>1, <3>2, <3>3, <2>3 DEF Current, C!Without
    <3>4. CASE k \in from..(n - 1)
        BY <3>1, <3>4 DEF Current, C!Without
    <3> QED BY <3>1, <3>3, <3>4
  <2>4. C!IdleIsCurrent'
      BY <2>2, <1>0 DEF C!IdleIsCurrent
  <2> QED BY <2>1, <2>2, <2>3, <2>4, <1>0, <1>1
<1>3. CASE /\ C!Ready(from, t.limited) = {}
           /\ C!Finish(t, C!Without(found, from..Number))
           /\ asked' = IF again THEN C!Fresh ELSE None
           /\ again' = FALSE
  <2>1. C!Fresh \in C!Tasks /\ C!Fresh.step = "created"
      BY <1>0 DEF C!Fresh, C!Tasks, C!Missing, C!Steps
  <2>2. ~C!Asking'
      BY <1>3, <2>1 DEF C!Asking
  <2>3. C!IdleIsCurrent'
    <3> SUFFICES ASSUME asked' = None, NEW n \in C!Accounts,
                        results'[n] # None
                 PROVE  C!Available(n)' /\ results'[n].of = snapshot'[n]
        BY DEF C!IdleIsCurrent
    <3>1. ~again
        BY <1>3, <1>0, <2>1
    <3>2. C!Available(n)' = C!Available(n) /\ snapshot'[n] = snapshot[n]
        BY DEF C!world, C!Available
    <3>3. n < from /\ results'[n] = found[n]
        BY <1>3, <1>0 DEF C!Finish, C!Without, C!Accounts
    <3> QED BY <3>1, <3>2, <3>3 DEF C!Accounts
  <2>4. issue \in BOOLEAN => issue' \in BOOLEAN
      BY <1>3 DEF C!Finish
  <2>5. results' \in [C!Accounts -> C!Results \cup {None}]
      BY <1>1, <1>3 DEF C!Finish
  <2> QED BY <2>1, <2>2, <2>3, <2>4, <2>5, <1>3
<1> QED BY <1>2, <1>3 DEF C!Proceed

(* An answer is kept if the account still has the data it was asked for.      *)
LEMMA AnswerKept ==
    ASSUME C!GroupConstants, Refreshed, C!Asking, NEW t \in C!Tasks,
           NEW status \in {"current", "unavailable", "api_changed"}, C!Answered(status, t),
           tokens' \in {tokens, [tokens EXCEPT ![asked.number] = "none"]},
           gfaults' \in 0..MaxRefusals, UNCHANGED gstops
    PROVE  Refreshed'
<1> DEFINE answer == [status |-> status, of |-> asked.snapshot, fresh |-> TRUE]
           found == [results EXCEPT ![asked.number] =
                        IF C!Available(asked.number) /\ snapshot[asked.number] = asked.snapshot
                        THEN answer ELSE None]
<1>0. /\ Number \in Nat /\ polls \in Nat /\ polls <= MaxPolls /\ MaxPolls \in Nat
      /\ asked \in C!Tasks /\ asked.number \in C!Accounts
      /\ snapshot \in [C!Accounts -> 0..polls] /\ ok \in BOOLEAN /\ again \in BOOLEAN
      /\ results \in [C!Accounts -> C!Results \cup {None}] /\ issue \in BOOLEAN
      /\ tokens \in [C!Accounts -> {"none", "good", "revoked"}]
    BY DEF C!GroupConstants, Refreshed, C!TypeOK, C!Asking
<1>1. C!Proceed(t, asked.number + 1, found) /\ UNCHANGED C!world /\ C!Notify
    BY DEF C!Answered
<1>2. found \in [C!Accounts -> C!Results \cup {None}]
  <2>1. C!Available(asked.number) /\ snapshot[asked.number] = asked.snapshot
            => answer \in C!Results
      BY <1>0 DEF C!Available, C!Missing, C!Results
  <2> QED BY <2>1, <1>0
<1>3. asked.number + 1 \in 1..(Number + 1)
    BY <1>0 DEF C!Accounts
<1>4. ASSUME ~again, NEW n \in 1..asked.number, found[n] # None
      PROVE  C!Available(n) /\ found[n].of = snapshot[n]
  <2>1. n \in C!Accounts
      BY <1>0 DEF C!Accounts
  <2>2. CASE n = asked.number
      BY <2>1, <2>2, <1>0, <1>4
  <2>3. CASE n # asked.number
    <3>1. found[n] = results[n] /\ n \in 1..(asked.number - 1)
        BY <2>1, <2>3, <1>0 DEF C!Accounts
    <3> QED BY <3>1, <1>4 DEF Refreshed, Current
  <2> QED BY <2>2, <2>3
<1>5. /\ asked' \in C!Tasks \cup {None}
      /\ results' \in [C!Accounts -> C!Results \cup {None}]
      /\ issue' \in BOOLEAN /\ again' \in BOOLEAN
      /\ C!Asking' => /\ asked'.number \in C!Accounts /\ asked'.number >= asked.number + 1
                      /\ asked'.step = "object" => tokens[asked'.number] # "none"
                      /\ asked'.step # "groups"
      /\ C!Asking' /\ ~again' => \A n \in 1..(asked'.number - 1) : Current(n)'
      /\ C!IdleIsCurrent'
  <2> HIDE DEF found
  <2>1. ~again => \A n \in 1..((asked.number + 1) - 1) :
                     found[n] # None => C!Available(n) /\ found[n].of = snapshot[n]
      BY <1>4, <1>0 DEF C!Accounts
  <2> QED BY <2>1, <1>0, <1>1, <1>2, <1>3, GoesOn
<1>6. tokens' \in [C!Accounts -> {"none", "good", "revoked"}]
    BY <1>0
<1>7. C!Asking' /\ ~C!At("login")' => tokens'[asked'.number] # "none"
  <2> SUFFICES ASSUME C!Asking', asked'.step # "login" PROVE tokens'[asked'.number] # "none"
      BY DEF C!At, C!Asking
  <2>1. asked'.step = "object"
      BY <1>5 DEF C!Asking
  <2>2. asked'.number \in C!Accounts /\ asked'.number # asked.number
      BY <1>5, <1>0 DEF C!Accounts
  <2> QED BY <2>1, <2>2, <1>5, <1>0
<1>8. C!TypeOK'
    BY <1>1, <1>5, <1>6, <1>7 DEF C!TypeOK, C!world, Refreshed
<1>9. C!ListenersAreTold'
    BY <1>1 DEF C!Notify, C!ListenersAreTold
<1> QED BY <1>5, <1>8, <1>9 DEF Refreshed

LEMMA RefreshedNext == ASSUME C!GroupConstants, Refreshed, [C!Next]_(C!vars) PROVE Refreshed'
<1>0. /\ Number \in Nat /\ polls \in Nat /\ polls <= MaxPolls /\ MaxPolls \in Nat
      /\ None \notin C!Tasks /\ None \notin C!Results
      /\ asked \in C!Tasks \cup {None} /\ MaxRefusals \in Nat /\ MaxStops \in Nat
      /\ snapshot \in [C!Accounts -> 0..polls] /\ ok \in BOOLEAN /\ again \in BOOLEAN
      /\ results \in [C!Accounts -> C!Results \cup {None}] /\ issue \in BOOLEAN
      /\ tokens \in [C!Accounts -> {"none", "good", "revoked"}]
      /\ gfaults \in 0..MaxRefusals /\ gstops \in 0..MaxStops
    BY DEF C!GroupConstants, Refreshed, C!TypeOK
<1>1. C!Fresh \in C!Tasks /\ C!Fresh.step = "created"
    BY <1>0 DEF C!Fresh, C!Tasks, C!Missing, C!Steps
<1>2. CASE C!Tick
  <2>1. asked' = C!Fresh /\ ~C!Asking' /\ asked' # None
      BY <1>2, <1>0, <1>1 DEF C!Tick, C!Asking
  <2>2. C!TypeOK'
      BY <2>1, <1>2 DEF C!Tick, C!TypeOK, C!world, Refreshed
  <2>3. C!ListenersAreTold' /\ C!IdleIsCurrent'
      BY <2>1, <1>2 DEF C!Tick, C!world, C!ListenersAreTold, C!IdleIsCurrent, C!Get, C!Available,
              Refreshed
  <2> QED BY <2>1, <2>2, <2>3, <1>1 DEF Refreshed
<1>3. CASE C!Begin
  <2>1. C!Proceed(asked, 1, results) /\ UNCHANGED C!world /\ C!Notify
      BY <1>3 DEF C!Begin
  <2>2. /\ asked' \in C!Tasks \cup {None}
        /\ results' \in [C!Accounts -> C!Results \cup {None}]
        /\ issue' \in BOOLEAN /\ again' \in BOOLEAN
        /\ C!Asking' => /\ asked'.number \in C!Accounts
                        /\ asked'.step = "object" => tokens[asked'.number] # "none"
                        /\ asked'.step # "groups"
        /\ C!Asking' /\ ~again' => \A n \in 1..(asked'.number - 1) : Current(n)'
        /\ C!IdleIsCurrent'
    <3>1. asked \in C!Tasks /\ 1 \in 1..(Number + 1)
        BY <1>3, <1>0 DEF C!Begin
    <3>2. ~again => \A n \in 1..(1 - 1) :
                       results[n] # None => C!Available(n) /\ results[n].of = snapshot[n]
        OBVIOUS
    <3> QED BY <3>1, <3>2, <2>1, <1>0, GoesOn
  <2>3. C!Asking' /\ ~C!At("login")' => tokens'[asked'.number] # "none"
      BY <2>2, <1>3 DEF C!Begin, C!At, C!Asking
  <2>4. C!TypeOK'
      BY <2>1, <2>2, <2>3, <1>3, <1>0 DEF C!TypeOK, C!world, C!Begin
  <2>5. C!ListenersAreTold'
      BY <2>1 DEF C!Notify, C!ListenersAreTold
  <2> QED BY <2>2, <2>4, <2>5 DEF Refreshed
<1>4. CASE C!Poll
  <2>1. /\ UNCHANGED <<results, tokens, issue, gfaults, gstops>> /\ C!Notify
        /\ polls' \in 0..MaxPolls /\ polls <= polls' /\ ok' \in BOOLEAN
        /\ snapshot' \in [C!Accounts -> 0..polls']
    <3>1. polls' = polls + 1 /\ polls < MaxPolls
        BY <1>4 DEF C!Poll
    <3>2. polls' \in 0..MaxPolls /\ polls <= polls' /\ 0..polls \subseteq 0..polls'
          /\ polls' \in 0..polls'
        BY <3>1, <1>0
    <3>3. /\ UNCHANGED <<results, tokens, issue, gfaults, gstops>> /\ C!Notify /\ ok' \in BOOLEAN
          /\ snapshot' \in [C!Accounts -> {0, polls'}] \/ UNCHANGED snapshot
        BY <1>4 DEF C!Poll, C!Missing
    <3>4. snapshot' \in [C!Accounts -> 0..polls']
      <4>1. CASE snapshot' \in [C!Accounts -> {0, polls'}]
        <5>1. {0, polls'} \subseteq 0..polls'
            BY <3>2, <1>0
        <5> QED BY <5>1, <4>1
      <4>2. CASE UNCHANGED snapshot
          BY <4>2, <3>2, <1>0
      <4> QED BY <3>3, <4>1, <4>2
    <3> QED BY <3>2, <3>3, <3>4
  <2>2. \/ /\ UNCHANGED <<asked, again, snapshot, ok>>
        \/ asked = None /\ asked' = C!Fresh /\ again' = FALSE
        \/ asked # None /\ UNCHANGED asked /\ again' = TRUE
      BY <1>4, <1>0 DEF C!Poll, C!Updated
  <2>3. C!TypeOK' /\ asked' \in C!Tasks \cup {None}
      BY <2>1, <2>2, <1>0, <1>1 DEF C!TypeOK, C!Asking, C!At, Refreshed
  <2>4. C!ListenersAreTold'
      BY <2>1 DEF C!Notify, C!ListenersAreTold
  <2>5. CASE UNCHANGED <<asked, again, snapshot, ok>>
      BY <2>1, <2>3, <2>4, <2>5 DEF Refreshed, Current, C!Asking, C!IdleIsCurrent, C!Available
  <2>6. CASE asked = None /\ asked' = C!Fresh /\ again' = FALSE
      BY <2>3, <2>4, <2>6, <1>0, <1>1 DEF Refreshed, C!Asking, C!IdleIsCurrent
  <2>7. CASE asked # None /\ UNCHANGED asked /\ again' = TRUE
      BY <2>3, <2>4, <2>7 DEF Refreshed, C!Asking, C!IdleIsCurrent
  <2> QED BY <2>2, <2>5, <2>6, <2>7
<1>5. CASE C!Reload
  <2>1. C!TypeOK'
    <3>1. ~C!Asking' /\ gstops' \in 0..MaxStops
        BY <1>5, <1>0, <1>1 DEF C!Reload, C!Asking
    <3> QED BY <3>1, <1>5, <1>0 DEF C!Reload, C!TypeOK, C!world, Refreshed
  <2>2. C!ListenersAreTold'
      BY <1>5 DEF C!Reload, C!Notify, C!ListenersAreTold
  <2> QED BY <2>1, <2>2, <1>5, <1>0, <1>1 DEF C!Reload, Refreshed, C!Asking, C!IdleIsCurrent
<1>6. ASSUME NEW n \in C!Accounts, C!Expire(n) PROVE Refreshed'
  <2>1. /\ results[n] \in C!Results /\ C!Notify
        /\ results' = [results EXCEPT ![n].fresh = FALSE]
        /\ UNCHANGED <<C!world, again, asked, tokens, issue, gfaults, gstops>>
      BY <1>6, <1>0 DEF C!Expire
  <2>2. results' \in [C!Accounts -> C!Results \cup {None}]
      BY <2>1, <1>0 DEF C!Results
  <2>3. \A m \in C!Accounts :
            results'[m] # None => results[m] # None /\ results'[m].of = results[m].of
      BY <2>1, <1>0 DEF C!Results
  <2>4. C!TypeOK'
      BY <2>1, <2>2 DEF C!TypeOK, C!world, C!Asking, C!At, Refreshed
  <2>5. C!ListenersAreTold'
      BY <2>1 DEF C!Notify, C!ListenersAreTold
  <2>6. C!IdleIsCurrent'
      BY <2>1, <2>3 DEF C!IdleIsCurrent, C!world, C!Available, Refreshed
  <2>7. ASSUME C!Asking', ~again', NEW m \in 1..(asked'.number - 1) PROVE Current(m)'
    <3>1. C!Asking /\ ~again /\ m \in 1..(asked.number - 1) /\ m \in C!Accounts
        BY <2>1, <2>7, <1>0 DEF C!Asking, C!Accounts, Refreshed
    <3>2. Current(m)
        BY <3>1 DEF Refreshed
    <3> QED BY <3>1, <3>2, <2>1, <2>3 DEF Current, C!world, C!Available
  <2> QED BY <2>1, <2>4, <2>5, <2>6, <2>7 DEF Refreshed, C!Asking
<1>7. ASSUME C!LoggedIn \/ C!ObjectRead \/ C!Revoke \/ UNCHANGED C!vars PROVE Refreshed'
  <2>1. /\ UNCHANGED <<C!world, results, told, again, issue, gstops>>
        /\ gfaults' \in 0..MaxRefusals
      BY <1>7, <1>0 DEF C!LoggedIn, C!ObjectRead, C!Revoke, C!vars, C!Fault
  <2>2. /\ asked' \in C!Tasks \cup {None}
        /\ asked' = None <=> asked = None
        /\ C!Asking' => C!Asking /\ asked'.number = asked.number
        /\ asked'.step = "login" => asked.step = "login"
        /\ tokens' \in [C!Accounts -> {"none", "good", "revoked"}]
        /\ \A n \in C!Accounts : tokens'[n] = "none" => tokens[n] = "none"
        /\ C!Asking' /\ ~C!At("login")' => tokens'[asked'.number] # "none"
    <3>1. CASE C!LoggedIn
      <4>1. asked \in C!Tasks /\ C!Asking /\ asked.number \in C!Accounts
          BY <3>1, <1>0 DEF C!LoggedIn, C!At, C!Asking, Refreshed
      <4> QED BY <3>1, <4>1, <1>0 DEF C!LoggedIn, C!Tasks, C!Steps, C!At, C!Asking
    <3>2. CASE C!ObjectRead
      <4>1. asked \in C!Tasks /\ C!Asking /\ asked.number \in C!Accounts
          BY <3>2, <1>0 DEF C!ObjectRead, C!At, C!Asking, Refreshed
      <4> QED BY <3>2, <4>1, <1>0 DEF C!ObjectRead, C!Tasks, C!Steps, C!At, C!Asking
    <3>3. CASE C!Revoke \/ UNCHANGED C!vars
        BY <3>3, <1>0 DEF C!Revoke, C!vars, Refreshed, C!TypeOK, C!Asking, C!At
    <3> QED BY <1>7, <3>1, <3>2, <3>3
  <2>3. C!TypeOK'
      BY <2>1, <2>2 DEF C!TypeOK, C!world, Refreshed
  <2>4. C!ListenersAreTold' /\ C!IdleIsCurrent'
      BY <2>1, <2>2 DEF C!ListenersAreTold, C!IdleIsCurrent, C!world, C!Get, C!Available, Refreshed
  <2>5. ASSUME C!Asking', ~again', NEW m \in 1..(asked'.number - 1) PROVE Current(m)'
    <3>1. Current(m)
        BY <2>1, <2>2, <2>5 DEF Refreshed
    <3> QED BY <3>1, <2>1 DEF Current, C!world, C!Available
  <2>6. C!Asking' => asked'.number \in C!Accounts
      BY <2>2 DEF Refreshed, C!Accounts
  <2> QED BY <2>2, <2>3, <2>4, <2>5, <2>6 DEF Refreshed
<1>8. CASE C!GroupsRead
  <2>1. asked \in C!Tasks /\ C!Asking
      BY <1>8, <1>0 DEF C!GroupsRead, C!At, C!Asking
  <2> QED BY <2>1, <1>8, <1>0, AnswerKept DEF C!GroupsRead
<1>9. ASSUME C!Asking PROVE [asked EXCEPT !.allOk = FALSE] \in C!Tasks
  <2>1. asked \in C!Tasks
      BY <1>9, <1>0 DEF C!Asking
  <2> QED BY <2>1 DEF C!Tasks
<1>11. CASE C!Refused
  <2>1. /\ C!Asking /\ asked \in C!Tasks /\ asked.number \in C!Accounts
        /\ tokens' = [tokens EXCEPT ![asked.number] = "none"]
        /\ gfaults' \in 0..MaxRefusals /\ UNCHANGED gstops
      BY <1>11, <1>0 DEF C!Refused, C!Asking, C!Forget, C!Fault, Refreshed
  <2>2. CASE asked.attempt = 1
    <3>1. /\ asked' = [asked EXCEPT !.attempt = 2, !.step = "login"]
          /\ UNCHANGED <<C!world, results, told, again, issue>>
        BY <2>2, <1>11 DEF C!Refused
    <3>2. asked' \in C!Tasks /\ asked'.number = asked.number /\ asked'.step = "login"
        BY <3>1, <2>1 DEF C!Tasks, C!Steps
    <3>3. C!TypeOK'
        BY <3>1, <3>2, <2>1, <1>0 DEF C!TypeOK, C!At, C!Asking, C!world
    <3>4. C!ListenersAreTold' /\ C!IdleIsCurrent'
        BY <3>1, <3>2, <1>0 DEF C!ListenersAreTold, C!IdleIsCurrent, C!world, C!Get, C!Available,
                Refreshed
    <3>5. ASSUME C!Asking', ~again', NEW m \in 1..(asked'.number - 1) PROVE Current(m)'
      <4>1. Current(m)
          BY <3>1, <3>2, <3>5, <2>1 DEF Refreshed
      <4> QED BY <4>1, <3>1 DEF Current, C!world, C!Available
    <3> QED BY <2>1, <3>2, <3>3, <3>4, <3>5 DEF Refreshed
  <2>3. CASE asked.attempt # 1
    <3>1. C!Answered("unavailable", [asked EXCEPT !.allOk = FALSE])
        BY <2>3, <1>11 DEF C!Refused
    <3> QED BY <3>1, <2>1, <1>9, AnswerKept
  <2> QED BY <2>2, <2>3
<1>12. CASE C!RefusedInBody
  <2>1. /\ C!Asking /\ C!Answered("unavailable", [asked EXCEPT !.allOk = FALSE])
        /\ tokens' = [tokens EXCEPT ![asked.number] = "none"]
        /\ gfaults' \in 0..MaxRefusals /\ UNCHANGED gstops
      BY <1>12, <1>0 DEF C!RefusedInBody, C!Forget
  <2> QED BY <2>1, <1>9, AnswerKept
<1>13. CASE C!ReadFails
  <2>1. /\ C!Asking
        /\ tokens' = [tokens EXCEPT ![asked.number] = "none"]
        /\ gfaults' \in 0..MaxRefusals /\ UNCHANGED gstops
      BY <1>13, <1>0 DEF C!ReadFails, C!Forget, C!Fault
  <2>2. asked \in C!Tasks
      BY <2>1, <1>0 DEF C!Asking
  <2>3. PICK status \in {"unavailable", "api_changed"}, t \in C!Tasks : C!Answered(status, t)
    <3>1. /\ [asked EXCEPT !.allOk = FALSE] \in C!Tasks
          /\ [asked EXCEPT !.allOk = FALSE, !.limited = TRUE] \in C!Tasks
          /\ [asked EXCEPT !.allOk = FALSE, !.broken = TRUE] \in C!Tasks
        BY <2>2 DEF C!Tasks
    <3> QED BY <3>1, <1>13 DEF C!ReadFails
  <2> QED BY <2>1, <2>3, AnswerKept
<1>14. CASE C!TimedOut
  <2>1. /\ C!Asking /\ C!Answered("unavailable", [asked EXCEPT !.allOk = FALSE])
        /\ gfaults' \in 0..MaxRefusals /\ UNCHANGED <<tokens, gstops>>
      BY <1>14, <1>0 DEF C!TimedOut, C!Fault
  <2> QED BY <2>1, <1>9, AnswerKept
<1> QED BY <1>2, <1>3, <1>4, <1>5, <1>6, <1>7, <1>8, <1>11, <1>12, <1>13, <1>14 DEF C!Next

-------------------------------------------------------------------------------
(* Buildings: the lock is the import's, and an import finds no entry of the   *)
(* address when it adds one.                                                  *)
Single == \A i, j \in B!Public : i = j

(* A discovery that looks the other accounts up has found a building.         *)
Asks == {call \in B!Call : call.step = "others" => call.found \in B!Ids}

Settled == B!TypeOK /\ Single /\ finds \in [B!Actors -> Asks]

LEMMA SettledInit == ASSUME B!BuildingConstants, B!Init PROVE Settled
<1>1. B!Idle \in Asks /\ B!Idle.step = "idle"
    BY DEF B!Idle, B!Call, B!NoBuilding, Asks
<1>2. B!TypeOK
    BY <1>1 DEF B!Init, B!TypeOK, B!BuildingConstants, B!Importing, Asks
<1> QED BY <1>1, <1>2 DEF B!Init, Settled, Single, B!Public

(* The one entry that matches is an entry.                                    *)
LEMMA OnlyEntry ==
    ASSUME B!BuildingConstants, Cardinality(B!Matching) = 1
    PROVE  B!TheOnly(B!Matching) \in B!Ids
<1>1. IsFiniteSet(B!Matching)
  <2>1. IsFiniteSet(B!Ids)
      BY FS_Interval DEF B!BuildingConstants, B!Ids
  <2> QED BY <2>1, FS_Subset DEF B!Matching
<1>2. PICK i : B!Matching = {i}
    BY <1>1, FS_Singleton
<1>3. B!TheOnly(B!Matching) \in B!Matching
    BY <1>2 DEF B!TheOnly
<1> QED BY <1>3 DEF B!Matching

(* Whatever ends in an answer for the dialog or the discovery.                *)
LEMMA ReturnsTyped ==
    ASSUME B!BuildingConstants, B!TypeOK, finds \in [B!Actors -> Asks], NEW a \in B!Actors,
           NEW building \in B!Ids \cup {B!NoBuilding},
           B!Returns(a, building), B!Importing(a) \/ block = Nobody
    PROVE  /\ link' \in [Cabinets -> B!Ids \cup {None, Nobody}]
           /\ reload' \in [Cabinets -> BOOLEAN]
           /\ states' \in [Cabinets -> {"none", "pending", "confirmation", "unavailable"}]
           /\ finds' \in [B!Actors -> Asks]
           /\ \A b \in B!Actors : B!Importing(b)' <=> block' = b
<1> USE DEF B!BuildingConstants, B!TypeOK
<1>0. a[2] \in Cabinets /\ finds[a] \in Asks
    BY DEF B!Actors
<1>1. B!Idle \in Asks /\ B!Idle.step = "idle"
    BY DEF B!Idle, B!Call, B!NoBuilding, Asks
<1>2. ASSUME NEW other \in B!Ids, B!SetLink(a[2], other)
      PROVE  link' \in [Cabinets -> B!Ids \cup {None, Nobody}] /\ reload' \in [Cabinets -> BOOLEAN]
    BY <1>2, <1>0 DEF B!SetLink
<1>3. \A state \in {"none", "pending", "confirmation", "unavailable"} :
          B!State(a, state) \in [Cabinets -> {"none", "pending", "confirmation", "unavailable"}]
    BY <1>0 DEF B!State
<1>4. /\ link' \in [Cabinets -> B!Ids \cup {None, Nobody}]
      /\ reload' \in [Cabinets -> BOOLEAN]
      /\ states' \in [Cabinets -> {"none", "pending", "confirmation", "unavailable"}]
      /\ \E call \in Asks : call.step # "import" /\ finds' = [finds EXCEPT ![a] = call]
  <2>1. CASE ~B!Active(a)
      BY <2>1, <1>1 DEF B!Returns, B!Ends
  <2>2. CASE B!Active(a) /\ building = B!NoBuilding
    <3>1. [finds[a] EXCEPT !.step = "find"] \in Asks
        BY <1>0 DEF B!Call, Asks
    <3>2. [finds[a] EXCEPT !.step = "find"].step # "import"
        BY <1>0 DEF B!Call, Asks
    <3>3. \/ finds' = [finds EXCEPT ![a] = B!Idle]
          \/ finds' = [finds EXCEPT ![a].step = "find"]
        BY <2>2 DEF B!Returns, B!Ends, B!Step
    <3>4. UNCHANGED <<link, reload>> /\ states' = B!State(a, "confirmation")
        BY <2>2 DEF B!Returns
    <3> QED BY <3>1, <3>2, <3>3, <3>4, <1>1, <1>3
  <2>3. CASE B!Active(a) /\ building # B!NoBuilding /\ a[1] = "task"
    <3>1. PICK call \in Asks : call = [finds[a] EXCEPT !.step = "others", !.found = building]
        BY <1>0, <2>3 DEF B!Call, Asks
    <3>2. call.step = "others"
        BY <3>1, <1>0 DEF B!Call
    <3>3. finds' = [finds EXCEPT ![a] = call] /\ UNCHANGED <<link, reload, states>>
        BY <2>3, <3>1 DEF B!Returns
    <3> QED BY <3>2, <3>3
  <2>4. CASE B!Active(a) /\ building # B!NoBuilding /\ a[1] # "task"
    <3>1. PICK call \in Asks : call = [finds[a] EXCEPT !.step = "groups", !.found = building]
        BY <1>0 DEF B!Call, Asks
    <3>2. call.step = "groups"
        BY <3>1, <1>0 DEF B!Call
    <3>3. /\ UNCHANGED states
          /\ \/ B!SetLink(a[2], building) /\ finds' = [finds EXCEPT ![a] = B!Idle]
             \/ finds' = [finds EXCEPT ![a] = call] /\ UNCHANGED <<link, reload>>
        BY <2>4, <3>1 DEF B!Returns, B!Ends
    <3> QED BY <3>2, <3>3, <2>4, <1>1, <1>2
  <2> QED BY <2>1, <2>2, <2>3, <2>4
<1>5. PICK call \in Asks : call.step # "import" /\ finds' = [finds EXCEPT ![a] = call]
    BY <1>4
<1>6. finds' \in [B!Actors -> Asks]
    BY <1>5
<1>7. ASSUME NEW b \in B!Actors PROVE B!Importing(b)' <=> block' = b
  <2>1. block' = IF block = a THEN Nobody ELSE block
      BY DEF B!Returns, B!Released
  <2>2. b # a => (B!Importing(b)' <=> B!Importing(b))
      BY <1>5 DEF B!Importing
  <2>3. ~B!Importing(a)'
      BY <1>5 DEF B!Importing
  <2> QED BY <2>1, <2>2, <2>3
<1> QED BY <1>4, <1>6, <1>7

(* An attempt that fails, in the form or in the background.                   *)
LEMMA FailsTyped ==
    ASSUME B!BuildingConstants, B!TypeOK, finds \in [B!Actors -> Asks], NEW a \in B!Actors, B!Fails(a)
    PROVE  /\ states' \in [Cabinets -> {"none", "pending", "confirmation", "unavailable"}]
           /\ finds' \in [B!Actors -> Asks]
           /\ \A b \in B!Actors : B!Importing(b)' <=> block' = b
           /\ UNCHANGED <<link, reload>>
<1> USE DEF B!BuildingConstants, B!TypeOK
<1>0. a[2] \in Cabinets /\ finds[a] \in Asks
    BY DEF B!Actors
<1>1. B!Idle \in Asks /\ B!Idle.step = "idle"
    BY DEF B!Idle, B!Call, B!NoBuilding, Asks
<1>2. [finds[a] EXCEPT !.step = "find"] \in Asks
      /\ [finds[a] EXCEPT !.step = "find"].step = "find"
    BY <1>0 DEF B!Call, Asks
<1>3. PICK call \in Asks : call.step # "import" /\ finds' = [finds EXCEPT ![a] = call]
  <2>1. \/ finds' = [finds EXCEPT ![a] = B!Idle]
        \/ finds' = [finds EXCEPT ![a].step = "find"]
      BY DEF B!Fails, B!Ends, B!Step
  <2> QED BY <2>1, <1>1, <1>2
<1>4. ASSUME NEW b \in B!Actors PROVE B!Importing(b)' <=> block' = b
  <2>1. block' = IF block = a THEN Nobody ELSE block
      BY DEF B!Fails, B!Released
  <2>2. b # a => (B!Importing(b)' <=> B!Importing(b))
      BY <1>3 DEF B!Importing
  <2>3. ~B!Importing(a)'
      BY <1>3 DEF B!Importing
  <2> QED BY <2>1, <2>2, <2>3
<1> QED BY <1>0, <1>3, <1>4 DEF B!Fails, B!State

(* One call moves on, and neither it nor another one takes or frees the lock. *)
LEMMA CallMoves ==
    ASSUME B!TypeOK, finds \in [B!Actors -> Asks], NEW a \in B!Actors, NEW call \in Asks,
           ~B!Importing(a), call.step # "import",
           finds' = [finds EXCEPT ![a] = call], UNCHANGED block
    PROVE  finds' \in [B!Actors -> Asks] /\ \A b \in B!Actors : B!Importing(b)' <=> block' = b
BY DEF B!TypeOK, B!Importing

LEMMA SettledNext == ASSUME B!BuildingConstants, Settled, [B!Next]_(B!vars) PROVE Settled'
<1>0. /\ MaxEntries \in Nat /\ MaxOutages \in Nat /\ MaxEdits \in Nat /\ Forms \subseteq Cabinets
      /\ Nobody \notin B!Actors /\ B!TypeOK /\ Single /\ finds \in [B!Actors -> Asks]
    BY DEF B!BuildingConstants, Settled
<1>1. B!Idle \in Asks /\ B!Idle.step = "idle"
    BY DEF B!Idle, B!Call, B!NoBuilding, Asks
<1>2. \A c \in Cabinets : <<"task", c>> \in B!Actors /\ <<"task", c>>[1] = "task"
                           /\ <<"task", c>>[2] = c
    BY DEF B!Actors
<1>3. \A c \in Forms : <<"form", c>> \in B!Actors /\ <<"form", c>>[1] = "form"
                        /\ <<"form", c>>[2] = c /\ c \in Cabinets
    BY <1>0 DEF B!Actors
<1>4. UNCHANGED entries => Single'
    BY <1>0 DEF Single, B!Public
<1>5. CASE B!AddByHand
  <2>1. PICK i \in B!Ids, spelling \in {"public", "alias"} :
          /\ \A j \in B!Ids : entries[j] # spelling
          /\ entries' = [entries EXCEPT ![i] = spelling]
      BY <1>5 DEF B!AddByHand
  <2>2. UNCHANGED <<link, reload, states, finds, block, faults, edits>>
      BY <1>5 DEF B!AddByHand
  <2>3. B!TypeOK'
      BY <2>1, <2>2, <1>0 DEF B!TypeOK, B!Importing
  <2>4. Single'
      BY <2>1, <1>0 DEF Single, B!Public, B!TypeOK
  <2> QED BY <2>2, <2>3, <2>4, <1>0 DEF Settled
<1>6. CASE B!Remove
  <2>1. PICK i \in B!Ids : entries' = [entries EXCEPT ![i] = "removed"]
      BY <1>6 DEF B!Remove, B!Matching
  <2>2. /\ UNCHANGED <<link, reload, states, finds, block, edits>>
        /\ faults' \in 0..MaxOutages
      BY <1>6, <1>0 DEF B!Remove, B!Fault, B!TypeOK
  <2>3. B!TypeOK'
      BY <2>1, <2>2, <1>0 DEF B!TypeOK, B!Importing
  <2>4. Single'
      BY <2>1, <1>0 DEF Single, B!Public, B!TypeOK
  <2> QED BY <2>2, <2>3, <2>4, <1>0 DEF Settled
<1>7. \A c \in Cabinets, way \in B!Ids \cup {None, Nobody} : B!SetLink(c, way) =>
          /\ link' \in [Cabinets -> B!Ids \cup {None, Nobody}]
          /\ reload' \in [Cabinets -> BOOLEAN]
    BY <1>0 DEF B!SetLink, B!TypeOK
<1>8. ASSUME NEW c \in Cabinets, B!ChooseLink(c) PROVE Settled'
  <2>1. /\ link' \in [Cabinets -> B!Ids \cup {None, Nobody}]
        /\ reload' \in [Cabinets -> BOOLEAN]
      BY <1>7, <1>8 DEF B!ChooseLink, B!Matching
  <2>2. UNCHANGED <<entries, states, finds, block, faults>> /\ edits' \in 0..MaxEdits
      BY <1>8, <1>0 DEF B!ChooseLink, B!TypeOK
  <2> QED BY <2>1, <2>2, <1>0, <1>4 DEF B!TypeOK, B!Importing, Settled
<1>9. ASSUME NEW c \in Cabinets, B!Reload(c) PROVE Settled'
  <2>1. /\ finds' = [finds EXCEPT ![<<"task", c>>] = B!Idle]
        /\ block' = IF block = <<"task", c>> THEN Nobody ELSE block
        /\ UNCHANGED <<entries, link, edits>>
        /\ reload' = [reload EXCEPT ![c] = FALSE] /\ states' = [states EXCEPT ![c] = "none"]
        /\ faults' \in 0..MaxOutages
      BY <1>9, <1>0 DEF B!Reload, B!Ends, B!Released, B!Fault, B!TypeOK
  <2>2. finds' \in [B!Actors -> Asks] /\ reload' \in [Cabinets -> BOOLEAN]
        /\ states' \in [Cabinets -> {"none", "pending", "confirmation", "unavailable"}]
      BY <2>1, <1>0, <1>1, <1>2 DEF B!TypeOK
  <2>3. \A b \in B!Actors : B!Importing(b)' <=> block' = b
    <3> DEFINE actor == <<"task", c>>
    <3>1. actor \in B!Actors
        BY <1>2
    <3> HIDE DEF actor
    <3> QED BY <3>1, <2>1, <1>0, <1>1 DEF B!TypeOK, B!Importing, actor
  <2>4. finds' \in [B!Actors -> B!Call]
      BY <2>2 DEF Asks
  <2> QED BY <2>1, <2>2, <2>3, <2>4, <1>0, <1>4 DEF B!TypeOK, Settled
<1>10. ASSUME NEW a \in B!Actors, UNCHANGED <<entries, block>>, ~B!Importing(a),
              link' \in [Cabinets -> B!Ids \cup {None, Nobody}], reload' \in [Cabinets -> BOOLEAN],
              states' \in [Cabinets -> {"none", "pending", "confirmation", "unavailable"}],
              faults' \in 0..MaxOutages, edits' \in 0..MaxEdits,
              NEW call \in Asks, call.step # "import", finds' = [finds EXCEPT ![a] = call]
       PROVE  Settled'
  <2>1. finds' \in [B!Actors -> Asks] /\ \A b \in B!Actors : B!Importing(b)' <=> block' = b
      BY <1>10, <1>0, CallMoves
  <2>2. finds' \in [B!Actors -> B!Call]
      BY <2>1 DEF Asks
  <2> QED BY <2>1, <2>2, <1>10, <1>0, <1>4 DEF B!TypeOK, Settled
<1>11. ASSUME NEW a \in B!Actors, NEW step \in {"find", "wait"}
       PROVE  /\ [finds[a] EXCEPT !.step = step] \in Asks
              /\ [finds[a] EXCEPT !.step = step].step # "import"
  <2>1. finds[a] \in Asks
      BY <1>0
  <2> QED BY <2>1 DEF B!Call, Asks
<1>12. ASSUME NEW c \in Cabinets, B!Tick(c) PROVE Settled'
  <2>1. /\ finds[<<"task", c>>].step = "idle"
        /\ finds' = [finds EXCEPT ![<<"task", c>>] = [finds[<<"task", c>>] EXCEPT !.step = "find"]]
        /\ states' = [states EXCEPT ![c] = "pending"]
        /\ UNCHANGED <<entries, link, reload, block, faults, edits>>
      BY <1>12, <1>1 DEF B!Tick, B!Step
  <2>2. ~B!Importing(<<"task", c>>)
      BY <2>1 DEF B!Importing
  <2> QED BY <2>1, <2>2, <1>0, <1>2, <1>10, <1>11 DEF B!TypeOK, Asks
<1>13. ASSUME NEW c \in Cabinets, B!Write(c) PROVE Settled'
  <2>1. /\ finds[<<"task", c>>].step = "others"
        /\ finds' = [finds EXCEPT ![<<"task", c>>] = B!Idle]
        /\ UNCHANGED <<entries, states, block, faults, edits>>
        /\ B!SetLink(c, finds[<<"task", c>>].found) \/ UNCHANGED <<link, reload>>
      BY <1>13 DEF B!Write, B!Ends
  <2>2. ~B!Importing(<<"task", c>>)
      BY <2>1 DEF B!Importing
  <2> QED BY <2>1, <2>2, <1>0, <1>1, <1>2, <1>7, <1>10 DEF B!TypeOK, Asks, B!Call
<1>14. ASSUME NEW c \in Forms, B!OpenForm(c) PROVE Settled'
  <2> DEFINE a == <<"form", c>>
             call == [finds[a] EXCEPT !.step = "find", !.old = link[c]]
  <2>1. /\ finds[a].step = "idle"
        /\ finds' = [finds EXCEPT ![a].step = "find", ![a].old = link[c]]
        /\ edits' \in 0..MaxEdits
        /\ UNCHANGED <<entries, link, reload, states, block, faults>>
      BY <1>14, <1>0, <1>1 DEF B!OpenForm, B!TypeOK
  <2>2. call \in Asks /\ call.step # "import"
    <3>1. finds[a] \in B!Call /\ link[c] \in B!Ids \cup {None, Nobody}
        BY <1>0, <1>3 DEF Asks, B!TypeOK
    <3> QED BY <3>1 DEF Asks, B!Call
  <2>3. a \in B!Actors /\ ~B!Importing(a)
      BY <2>1, <1>3 DEF B!Importing
  <2>4. finds' = [finds EXCEPT ![a] = call]
      BY <2>1, <2>3, <1>0
  <2> HIDE DEF a, call
  <2> QED BY <2>1, <2>2, <2>3, <2>4, <1>0, <1>10 DEF B!TypeOK
<1>15. ASSUME NEW c \in Forms, B!CloseForm(c) \/ B!SubmitGroups(c) PROVE Settled'
  <2> DEFINE a == <<"form", c>>
  <2>1. /\ finds[a].step \in {"find", "groups"} /\ finds' = [finds EXCEPT ![a] = B!Idle]
        /\ UNCHANGED <<entries, states, block, faults, edits>>
        /\ (\E i \in B!Ids : B!SetLink(c, i)) \/ UNCHANGED <<link, reload>>
      BY <1>15 DEF B!CloseForm, B!SubmitGroups, B!Ends, B!Matching
  <2>2. a \in B!Actors /\ ~B!Importing(a)
      BY <2>1, <1>3 DEF B!Importing
  <2>3. link' \in [Cabinets -> B!Ids \cup {None, Nobody}] /\ reload' \in [Cabinets -> BOOLEAN]
      BY <2>1, <1>3, <1>7, <1>0 DEF B!TypeOK
  <2> HIDE DEF a
  <2> QED BY <2>1, <2>2, <2>3, <1>0, <1>1, <1>10 DEF B!TypeOK
<1>16. \A a \in B!Actors : a[2] \in Cabinets
    BY <1>0 DEF B!Actors
<1>17. ASSUME NEW a \in B!Actors, B!Found(a) PROVE Settled'
  <2>1. /\ finds[a].step = "find"
        /\ UNCHANGED <<entries, link, reload, states, block, faults, edits>>
        /\ \/ finds' = [finds EXCEPT ![a] = B!Idle]
           \/ finds' = [finds EXCEPT ![a] = [finds[a] EXCEPT !.step = "wait"]]
      BY <1>17 DEF B!Found, B!Step, B!Ends
  <2>2. ~B!Importing(a)
      BY <2>1 DEF B!Importing
  <2> QED BY <2>1, <2>2, <1>0, <1>1, <1>10, <1>11 DEF B!TypeOK
<1>18. ASSUME NEW a \in B!Actors, B!NotFound(a) PROVE Settled'
  <2>1. /\ finds[a].step = "find" /\ faults' \in 0..MaxOutages
        /\ states' = B!State(a, "confirmation")
        /\ UNCHANGED <<entries, link, reload, block, edits>>
        /\ finds' = [finds EXCEPT ![a] = B!Idle] \/ UNCHANGED finds
      BY <1>18, <1>0 DEF B!NotFound, B!Ends, B!Fault, B!TypeOK
  <2>2. ~B!Importing(a)
      BY <2>1 DEF B!Importing
  <2>3. states' \in [Cabinets -> {"none", "pending", "confirmation", "unavailable"}]
      BY <2>1, <1>0, <1>16 DEF B!State, B!TypeOK
  <2>4. finds' = [finds EXCEPT ![a] = B!Idle] \/ finds' = [finds EXCEPT ![a] = finds[a]]
      BY <2>1, <1>0
  <2> QED BY <2>1, <2>2, <2>3, <2>4, <1>0, <1>1, <1>10 DEF B!TypeOK
<1>19. ASSUME NEW a \in B!Actors, B!Fails(a), UNCHANGED <<entries, edits>>, faults' \in 0..MaxOutages
       PROVE  Settled'
  <2>1. /\ states' \in [Cabinets -> {"none", "pending", "confirmation", "unavailable"}]
        /\ finds' \in [B!Actors -> Asks]
        /\ \A b \in B!Actors : B!Importing(b)' <=> block' = b
        /\ UNCHANGED <<link, reload>>
      BY <1>19, <1>0, FailsTyped
  <2>2. finds' \in [B!Actors -> B!Call]
      BY <2>1 DEF Asks
  <2> QED BY <2>1, <2>2, <1>19, <1>0, <1>4 DEF B!TypeOK, Settled
<1>20. ASSUME NEW a \in B!Actors, NEW building \in B!Ids \cup {B!NoBuilding},
              B!Returns(a, building), B!Importing(a) \/ block = Nobody,
              entries' \in [B!Ids -> {"unused", "public", "alias", "removed"}], Single',
              UNCHANGED edits, faults' \in 0..MaxOutages
       PROVE  Settled'
  <2>1. /\ link' \in [Cabinets -> B!Ids \cup {None, Nobody}]
        /\ reload' \in [Cabinets -> BOOLEAN]
        /\ states' \in [Cabinets -> {"none", "pending", "confirmation", "unavailable"}]
        /\ finds' \in [B!Actors -> Asks]
        /\ \A b \in B!Actors : B!Importing(b)' <=> block' = b
      BY <1>20, <1>0, ReturnsTyped
  <2>2. finds' \in [B!Actors -> B!Call]
      BY <2>1 DEF Asks
  <2> QED BY <2>1, <2>2, <1>20, <1>0 DEF B!TypeOK, Settled
<1>21. ASSUME NEW a \in B!Actors, B!Lock(a) PROVE Settled'
  <2>1. /\ finds[a].step = "wait" /\ block = Nobody
        /\ UNCHANGED <<entries, faults, edits>>
        /\ \/ B!Returns(a, B!NoBuilding)
           \/ /\ B!Matching # {} /\ ~(Cardinality(B!Matching) > 1)
              /\ B!Returns(a, B!TheOnly(B!Matching))
           \/ /\ block' = a /\ finds' = [finds EXCEPT ![a].step = "import"]
              /\ UNCHANGED <<link, reload, states>>
    <3>1. CASE ~B!Active(a) \/ Cardinality(B!Matching) > 1
      <4>1. B!Returns(a, B!NoBuilding)
          BY <3>1, <1>21, SameCount DEF B!Lock
      <4>2. finds[a].step = "wait" /\ block = Nobody /\ UNCHANGED <<entries, faults, edits>>
          BY <1>21 DEF B!Lock
      <4> QED BY <4>1, <4>2
    <3>2. CASE ~(~B!Active(a) \/ Cardinality(B!Matching) > 1) /\ B!Matching # {}
        BY <3>2, <1>21, SameCount DEF B!Lock
    <3>3. CASE ~(~B!Active(a) \/ Cardinality(B!Matching) > 1) /\ B!Matching = {}
        BY <3>3, <1>21, SameCount DEF B!Lock, B!Step
    <3> QED BY <3>1, <3>2, <3>3
  <2>2. Single' /\ faults' \in 0..MaxOutages
        /\ entries' \in [B!Ids -> {"unused", "public", "alias", "removed"}]
      BY <2>1, <1>0, <1>4 DEF B!TypeOK
  <2>3. CASE B!Returns(a, B!NoBuilding)
      BY <2>1, <2>2, <2>3, <1>20
  <2>4. CASE /\ B!Matching # {} /\ ~(Cardinality(B!Matching) > 1)
             /\ B!Returns(a, B!TheOnly(B!Matching))
    <3>1. IsFiniteSet(B!Matching)
      <4>1. IsFiniteSet(B!Ids)
          BY <1>0, FS_Interval DEF B!Ids
      <4> QED BY <4>1, FS_Subset DEF B!Matching
    <3>2. Cardinality(B!Matching) = 1
        BY <3>1, <2>4, FS_EmptySet, FS_CardinalityType
    <3>3. B!TheOnly(B!Matching) \in B!Ids
        BY <3>2, OnlyEntry
    <3> QED BY <2>1, <2>2, <2>4, <3>3, <1>20
  <2>5. CASE /\ block' = a /\ finds' = [finds EXCEPT ![a].step = "import"]
             /\ UNCHANGED <<link, reload, states>>
    <3>1. PICK call \in Asks : call = [finds[a] EXCEPT !.step = "import"] /\ call.step = "import"
      <4>1. finds[a] \in B!Call
          BY <1>0 DEF B!TypeOK
      <4>2. [finds[a] EXCEPT !.step = "import"] \in Asks /\ [finds[a] EXCEPT !.step = "import"].step = "import"
          BY <4>1 DEF Asks, B!Call
      <4> QED BY <4>2
    <3>2. finds' = [finds EXCEPT ![a] = call]
        BY <3>1, <2>5
    <3>3. finds' \in [B!Actors -> Asks] /\ finds' \in [B!Actors -> B!Call]
        BY <3>2, <1>0 DEF Asks
    <3>4. \A b \in B!Actors : B!Importing(b)' <=> block' = b
        BY <3>1, <3>2, <2>1, <2>5, <1>0 DEF B!Importing, B!TypeOK
    <3> QED BY <3>3, <3>4, <2>1, <2>2, <2>5, <1>0 DEF B!TypeOK, Settled
  <2> QED BY <2>1, <2>3, <2>4, <2>5
<1>22. ASSUME NEW a \in B!Actors, B!Import(a) PROVE Settled'
  <2>1. PICK i \in B!Ids : entries' = [entries EXCEPT ![i] = "public"] /\ B!Returns(a, i)
      BY <1>22 DEF B!Import
  <2>2. B!Importing(a) /\ B!Public = {} /\ UNCHANGED <<faults, edits>>
      BY <1>22 DEF B!Import
  <2>3. Single' /\ entries' \in [B!Ids -> {"unused", "public", "alias", "removed"}]
      BY <2>1, <2>2, <1>0 DEF Single, B!Public, B!TypeOK
  <2>4. faults' \in 0..MaxOutages
      BY <2>2, <1>0 DEF B!TypeOK
  <2> QED BY <2>1, <2>2, <2>3, <2>4, <1>20
<1>23. ASSUME NEW a \in B!Actors, B!ImportAborts(a) PROVE Settled'
  <2>1. /\ B!Importing(a) /\ UNCHANGED <<entries, edits>> /\ faults' \in 0..MaxOutages
        /\ \/ Cardinality(B!Matching) = 1 /\ B!Returns(a, B!TheOnly(B!Matching))
           \/ B!Fails(a)
    <3>1. B!Importing(a) /\ UNCHANGED <<entries, edits>> /\ faults' \in 0..MaxOutages
        BY <1>23, <1>0 DEF B!ImportAborts, B!Fault, B!TypeOK
    <3>2. CASE Cardinality(B!Matching) = 1
        BY <3>1, <3>2, <1>23, SameCount DEF B!ImportAborts
    <3>3. CASE Cardinality(B!Matching) # 1
      <4>1. B!Fails(a)
          BY <3>3, <1>23, SameCount DEF B!ImportAborts
      <4> QED BY <3>1, <4>1
    <3> QED BY <3>2, <3>3
  <2>2. CASE B!Fails(a)
      BY <2>1, <2>2, <1>19
  <2>3. CASE Cardinality(B!Matching) = 1 /\ B!Returns(a, B!TheOnly(B!Matching))
    <3>1. B!TheOnly(B!Matching) \in B!Ids
        BY <2>3, <1>0, OnlyEntry
    <3>2. Single' /\ entries' \in [B!Ids -> {"unused", "public", "alias", "removed"}]
        BY <2>1, <1>0, <1>4 DEF B!TypeOK
    <3> QED BY <3>1, <3>2, <2>1, <2>3, <1>20
  <2> QED BY <2>1, <2>2, <2>3
<1>24. ASSUME NEW a \in B!Actors, B!LookupFails(a) PROVE Settled'
  <2>1. B!Fails(a) /\ UNCHANGED <<entries, edits>> /\ faults' \in 0..MaxOutages
      BY <1>24, <1>0 DEF B!LookupFails, B!Fault, B!TypeOK
  <2> QED BY <2>1, <1>19
<1>25. CASE UNCHANGED B!vars
    BY <1>25, <1>0, <1>4 DEF B!vars, Settled, B!TypeOK, B!Importing
<1> QED
    BY <1>5, <1>6, <1>8, <1>9, <1>12, <1>13, <1>14, <1>15, <1>17, <1>18, <1>21, <1>22, <1>23, <1>24,
       <1>25
    DEF B!Next

-------------------------------------------------------------------------------
(* ScheduleGroups: a row has groups, those of its link unless it is automatic.*)
Sound(r) == r # None => r.groups # {} /\ (r.link # S!Automatic => r.groups = r.link)

(* Under the link of now, a row has the groups the user knows; an automatic   *)
(* link whose groups the user knows has a row.                                *)
Tells(r) ==
    known # {} =>
        /\ r # None /\ r.link = choice => r.groups = known
        /\ choice = S!Automatic => r # None /\ r.link = choice

(* A decision that is being saved is the one that would be taken now of the   *)
(* house it has seen, unless a form was saved since.                          *)
OldLink(d) == IF d.seen[3] THEN S!Automatic ELSE choice

OldBefore(d) ==
    IF S!Previous # None THEN S!Previous.groups ELSE IF d.seen[3] THEN choice ELSE {}

Agrees(d) ==
    /\ d.link = OldLink(d)
    /\ d.row = IF d.seen[2] = {} THEN S!Previous ELSE [link |-> OldLink(d), groups |-> d.seen[2]]
    /\ d.notice = IF d.seen[2] # {} /\ OldBefore(d) \notin {{}, d.seen[2]}
                  THEN [old |-> OldBefore(d), new |-> d.seen[2]] ELSE None
    /\ d.seen[3] => choice # S!Automatic /\ choice # None /\ d.seen[2] # {}
    /\ d.seen[2] # {} /\ ~d.seen[3] =>
          choice # None /\ (choice # S!Automatic => d.seen[2] = choice)

Types ==
    /\ S!TypeOK
    /\ task \in S!Tasks \cup {None}
    /\ life = "down" => ~needs /\ task = None
    /\ S!Saving => task.edit <= saves /\ Sound(task.row)
    /\ needs \in BOOLEAN

Knows == known # {} => choice # None /\ (choice # S!Automatic => known = choice)

Followed ==
    /\ Types /\ Sound(records) /\ Sound(file) /\ Knows
    /\ life = "up" => Tells(records)
    /\ ~needs => Tells(file) /\ records \in {file, None}
    /\ S!Saving /\ task.edit = saves => Agrees(task)

LEMMA FollowedInit == ASSUME S!FollowerConstants, S!Init PROVE Followed
<1>0. 0 \in 0..MaxMoves /\ 0 \in 0..MaxEdits /\ 0 \in 0..MaxStops
    BY DEF S!FollowerConstants
<1>1. S!TypeOK /\ ~S!Saving
    BY <1>0 DEF S!Init, S!TypeOK, S!Saving, S!Choices, S!Links
<1> QED BY <1>1 DEF S!Init, Followed, Types, Sound, Knows, Tells

(* What is resolved is groups, some where a choice is replaced; where it is   *)
(* not, they are those of the choice.                                         *)
LEMMA WhatIsResolved ==
    ASSUME S!FollowerConstants, Followed
    PROVE  /\ S!Resolved \in S!Choices /\ S!Replaced \in BOOLEAN
           /\ S!Replaced => S!Resolved # {} /\ choice # None /\ choice # S!Automatic
           /\ ~S!Replaced => S!Resolved = S!InForce
           /\ S!Replaced => S!Resolved = S!Assigned /\ house # {}
           /\ ~S!Replaced /\ S!Resolved # {} =>
                 choice # None /\ (choice # S!Automatic => S!Resolved = choice)
<1>1. house \in SUBSET Groups /\ offered \in SUBSET Groups /\ choice \in S!Links
    BY DEF Followed, Types, S!TypeOK, S!Choices
<1>2. S!Assigned \in SUBSET Groups
    BY <1>1 DEF S!Assigned, S!Unambiguous
<1>3. S!InForce \in SUBSET Groups
    BY <1>1, <1>2 DEF S!InForce, S!Links, S!Choices
<1>4. S!Replaced \in BOOLEAN
    BY DEF S!Replaced
<1>5. S!Replaced => S!Assigned # {} /\ choice # None /\ choice # S!Automatic /\ house # {}
    BY DEF S!Replaced
<1>6. S!InForce # {} => choice # None /\ (choice # S!Automatic => S!InForce = choice)
  <2>1. CASE choice = None \/ house = {}
      BY <2>1 DEF S!InForce
  <2>2. CASE ~(choice = None \/ house = {}) /\ choice = S!Automatic
      BY <2>2
  <2>3. CASE ~(choice = None \/ house = {}) /\ choice # S!Automatic
    <3>1. S!InForce = IF choice \subseteq house THEN choice ELSE {}
        BY <2>3 DEF S!InForce
    <3> QED BY <3>1, <2>3
  <2> QED BY <2>1, <2>2, <2>3
<1> QED BY <1>2, <1>3, <1>4, <1>5, <1>6 DEF S!Resolved, S!Choices

(* The row remembered under the link of now.                                  *)
LEMMA WhatIsPrevious ==
    ASSUME S!FollowerConstants, Followed
    PROVE  /\ S!Previous \in S!Rows \cup {None} /\ Sound(S!Previous)
           /\ S!Previous # None => S!Previous = records /\ records.link = choice
           /\ S!Previous = None => records = None \/ records.link # choice
BY DEF S!Previous, Followed, Types, S!TypeOK, Sound

LEMMA WhatIsDecided ==
    ASSUME S!FollowerConstants, Followed
    PROVE  S!Decided \in S!Tasks /\ Agrees(S!Decided) /\ Sound(S!Decided.row)
<1> DEFINE d == S!Decided
<1>1. /\ choice \in S!Links /\ saves \in 0..MaxEdits /\ S!Automatic \in S!Links
      /\ S!Automatic \in S!Choices
    BY DEF Followed, Types, S!TypeOK, S!Links, S!Choices, S!Automatic
<1>2. d.seen = <<house = {}, S!Resolved, S!Replaced>> /\ d.edit = saves /\ d.step = "save"
    BY DEF S!Decided
<1>3. d.seen[2] = S!Resolved /\ d.seen[3] = S!Replaced
    BY <1>2
<1>4. d.link = OldLink(d) /\ d.link = S!NewLink
    BY <1>3 DEF S!Decided, OldLink, S!NewLink
<1>5. S!Before = OldBefore(d)
    BY <1>3 DEF S!Before, OldBefore
<1>6. Agrees(d)
    BY <1>3, <1>4, <1>5, WhatIsResolved DEF Agrees, S!Decided
<1>7. S!NewLink \in S!Links /\ (S!Resolved # {} => S!NewLink \in S!Choices)
    BY <1>1, WhatIsResolved DEF S!NewLink, S!Links
<1>8. d.row \in S!Rows \cup {None} /\ Sound(d.row)
  <2>1. CASE S!Resolved = {}
      BY <2>1, WhatIsPrevious DEF S!Decided
  <2>2. CASE S!Resolved # {}
    <3>1. d.row = [link |-> S!NewLink, groups |-> S!Resolved]
        BY <2>2 DEF S!Decided
    <3>2. d.row \in S!Rows /\ d.row.link = S!NewLink /\ d.row.groups = S!Resolved
        BY <3>1, <2>2, <1>7, WhatIsResolved DEF S!Rows
    <3>3. S!NewLink # S!Automatic => S!Resolved = S!NewLink
        BY <2>2, WhatIsResolved DEF S!NewLink
    <3> QED BY <3>2, <3>3, <2>2 DEF Sound
  <2> QED BY <2>1, <2>2
<1>9. d.notice \in S!Notices \cup {None}
  <2>1. S!Resolved # {} => S!Before \in S!Choices
      BY <1>1, WhatIsPrevious, WhatIsResolved DEF S!Before, S!Rows, S!Links, S!Choices
  <2> QED BY <2>1, WhatIsResolved DEF S!Decided, S!Notices
<1>10. d \in S!Tasks
  <2>1. d.seen \in BOOLEAN \X S!Choices \X BOOLEAN
    <3>1. PICK unavailable \in BOOLEAN : unavailable = (house = {})
        OBVIOUS
    <3>2. <<unavailable, S!Resolved, S!Replaced>> \in BOOLEAN \X S!Choices \X BOOLEAN
        BY WhatIsResolved
    <3> QED BY <3>1, <3>2, <1>2
  <2>2. d = [step |-> "save", edit |-> d.edit, seen |-> d.seen, link |-> d.link, row |-> d.row,
             notice |-> d.notice]
      BY DEF S!Decided
  <2> HIDE DEF d
  <2> QED BY <1>1, <1>2, <1>4, <1>7, <1>8, <1>9, <2>1, <2>2 DEF S!Tasks
<1> QED BY <1>6, <1>8, <1>10

(* A decision that is carried out, while the house is as it saw it.           *)
Carried(d) ==
    /\ d \in S!Tasks /\ d.step = "save" /\ Agrees(d) /\ Sound(d.row)
    /\ d.seen = <<house = {}, S!Resolved, S!Replaced>>
    /\ records' = d.row /\ choice' = d.link /\ S!Announce(d) /\ S!Told(d)
    /\ UNCHANGED <<house, offered>>

LEMMA CarriedStays ==
    ASSUME S!FollowerConstants, Followed, life = "up", NEW d, Carried(d)
    PROVE  /\ Tells(records)' /\ Knows' /\ Sound(records)'
           /\ records' \in S!Rows \cup {None} /\ choice' \in S!Links
           /\ known' \in S!Choices /\ notice' \in S!Notices \cup {None}
           /\ d.row = None => UNCHANGED <<known, choice>>
           /\ choice' # choice => S!Replaced /\ choice' = S!Automatic
           /\ notice' \notin {notice, None} =>
                 /\ notice'.old # notice'.new
                 /\ known \in {{}, notice'.old}
                 /\ notice'.new = S!InForce'
<1>0. /\ None \notin S!Rows /\ None \notin S!Notices /\ \A groups \in S!Choices : groups # None
      /\ choice \in S!Links /\ known \in S!Choices /\ notice \in S!Notices \cup {None}
      /\ Sound(records) /\ Knows /\ Tells(records)
    BY DEF S!FollowerConstants, Followed, Types, S!TypeOK
<1>1. d.seen[2] = S!Resolved /\ d.seen[3] = S!Replaced
    BY DEF Carried
<1>2. /\ d.link \in S!Links /\ d.row \in S!Rows \cup {None} /\ d.notice \in S!Notices \cup {None}
  <2>1. d \in [step : {"save"}, edit : 0..MaxEdits, seen : BOOLEAN \X S!Choices \X BOOLEAN,
                link : S!Links, row : S!Rows \cup {None}, notice : S!Notices \cup {None}]
      BY DEF Carried, S!Tasks
  <2> QED BY <2>1
<1>3. PICK res \in S!Choices, rep \in BOOLEAN : res = S!Resolved /\ rep = S!Replaced
    BY WhatIsResolved
<1>4. /\ rep => res # {} /\ choice # None /\ choice # S!Automatic
      /\ ~rep /\ res # {} => choice # None /\ (choice # S!Automatic => res = choice)
    BY <1>3, WhatIsResolved
<1>5. PICK before : before = OldBefore(d)
    OBVIOUS
<1>6. PICK prev \in S!Rows \cup {None} : prev = S!Previous
    BY WhatIsPrevious
<1>7. /\ prev # None => prev = records /\ records.link = choice
      /\ prev = None => records = None \/ records.link # choice
    BY <1>6, WhatIsPrevious
<1>8. before = IF prev # None THEN prev.groups ELSE IF rep THEN choice ELSE {}
    BY <1>1, <1>3, <1>5, <1>6 DEF OldBefore
<1>9. d.link = IF rep THEN S!Automatic ELSE choice
    BY <1>1, <1>3 DEF Carried, Agrees, OldLink
<1>10. /\ res = {} => d.row = prev
       /\ res # {} => /\ d.row = [link |-> d.link, groups |-> res]
                      /\ d.row # None /\ d.row.link = d.link /\ d.row.groups = res
  <2>1. d.row = IF res = {} THEN prev ELSE [link |-> d.link, groups |-> res]
      BY <1>1, <1>3, <1>6 DEF Carried, Agrees
  <2>2. res # {} => d.link \in S!Choices
      BY <1>0, <1>4, <1>9 DEF S!Links, S!Choices, S!Automatic
  <2>3. CASE res # {}
    <3>1. d.row = [link |-> d.link, groups |-> res]
        BY <2>1, <2>3
    <3>2. [link |-> d.link, groups |-> res] \in S!Rows
        BY <2>2, <2>3 DEF S!Rows
    <3> QED BY <3>1, <3>2, <2>3, <1>0
  <2> QED BY <2>1, <2>3
<1>11. /\ res # {} /\ before \notin {{}, res} =>
              d.notice # None /\ d.notice.old = before /\ d.notice.new = res
       /\ ~(res # {} /\ before \notin {{}, res}) => d.notice = None
  <2>1. d.notice = IF res # {} /\ before \notin {{}, res} THEN [old |-> before, new |-> res] ELSE None
      BY <1>1, <1>3, <1>5 DEF Carried, Agrees
  <2>2. CASE res # {} /\ before \notin {{}, res}
    <3>1. before \in S!Choices
        BY <2>2, <1>0, <1>4, <1>8 DEF S!Links, S!Rows
    <3>2. [old |-> before, new |-> res] \in S!Notices
        BY <3>1 DEF S!Notices
    <3>3. d.notice = [old |-> before, new |-> res]
        BY <2>1, <2>2
    <3> QED BY <3>2, <3>3, <2>2, <1>0
  <2> QED BY <2>1, <2>2
<1>12. records' = d.row /\ choice' = d.link /\ Sound(d.row)
    BY DEF Carried
<1>13. known' = IF d.notice # None THEN d.notice.new
                ELSE IF known = {} /\ d.row # None THEN d.row.groups ELSE known
    BY DEF Carried, S!Told
<1>14. notice' = IF d.notice # None THEN d.notice
                 ELSE IF records # None /\ d.row = None THEN None ELSE notice
    BY DEF Carried, S!Announce
(* What was in force before is what the user knows.                           *)
<1>15. known # {} => \/ prev # None /\ prev.groups = known
                     \/ prev = None /\ choice # S!Automatic /\ known = choice
    BY <1>0, <1>7 DEF Tells, Knows
<1>16. prev # None => prev.groups # {}
    BY <1>0, <1>7 DEF Sound
<1>17. /\ known' \in S!Choices /\ notice' \in S!Notices \cup {None}
       /\ records' \in S!Rows \cup {None} /\ choice' \in S!Links
  <2>1. d.row # None => d.row.groups \in S!Choices
      BY <1>2 DEF S!Rows
  <2>2. d.notice # None => d.notice.new \in S!Choices
      BY <1>2 DEF S!Notices
  <2> QED BY <2>1, <2>2, <1>0, <1>2, <1>12, <1>13, <1>14
<1>18. known' # {} => /\ d.row # None /\ d.row.link = d.link => d.row.groups = known'
                      /\ d.link = S!Automatic => d.row # None /\ d.row.link = d.link
  <2>1. CASE res # {}
    <3>1. known' = res \/ (known # {} /\ d.notice = None /\ known' = known /\ before \in {{}, res})
        BY <2>1, <1>10, <1>11, <1>13
    <3>2. ASSUME known # {}, d.notice = None, known' = known, before \in {{}, res} PROVE known' = res
      <4>1. CASE prev # None
          BY <4>1, <3>2, <1>8, <1>15, <1>16
      <4>2. CASE prev = None /\ rep
          BY <4>2, <3>2, <1>4, <1>8, <1>15 DEF S!Automatic
      <4>3. CASE prev = None /\ ~rep
          BY <4>3, <3>2, <2>1, <1>4, <1>15
      <4> QED BY <4>1, <4>2, <4>3
    <3> QED BY <3>1, <3>2, <2>1, <1>10
  <2>2. CASE res = {}
    <3>1. ~rep /\ d.link = choice /\ d.row = prev /\ d.notice = None
        BY <2>2, <1>4, <1>9, <1>10, <1>11
    <3>2. CASE known = {}
        BY <3>1, <3>2, <1>7, <1>13
    <3>3. CASE known # {}
        BY <3>1, <3>3, <1>7, <1>13, <1>15
    <3> QED BY <3>2, <3>3
  <2> QED BY <2>1, <2>2
<1>19. known' # {} => d.link # None /\ (d.link # S!Automatic => known' = d.link)
  <2>1. CASE rep
    <3>1. d.link = S!Automatic /\ S!Automatic # None
        BY <2>1, <1>9, <1>0 DEF S!Automatic, S!Choices
    <3> QED BY <3>1
  <2>2. CASE ~rep /\ res # {}
    <3>1. d.link = choice /\ choice # None
        BY <2>2, <1>4, <1>9
    <3>2. ASSUME choice # S!Automatic, known' # {} PROVE known' = choice
      <4>1. res = choice /\ d.row.groups = res /\ d.row # None
          BY <3>2, <2>2, <1>4, <1>10
      <4>2. known' = res \/ known' = known
          BY <4>1, <1>11, <1>13
      <4> QED BY <4>1, <4>2, <3>2, <1>0 DEF Knows
    <3> QED BY <3>1, <3>2
  <2>3. CASE ~rep /\ res = {}
    <3>1. d.link = choice /\ d.row = prev /\ d.notice = None
        BY <2>3, <1>9, <1>10, <1>11
    <3>2. CASE known # {}
        BY <3>1, <3>2, <1>0, <1>13 DEF Knows
    <3>3. CASE known = {} /\ prev = None
        BY <3>1, <3>3, <1>13
    <3>4. CASE known = {} /\ prev # None
      <4>1. known' = prev.groups /\ prev = records /\ records.link = choice /\ records # None
          BY <3>1, <3>4, <1>7, <1>13
      <4>2. choice # S!Automatic => records.groups = choice
          BY <4>1, <1>0 DEF Sound
      <4>3. choice # None
          BY <4>1, <1>0, <1>6 DEF S!Rows
      <4> QED BY <4>1, <4>2, <4>3, <3>1
    <3> QED BY <3>2, <3>3, <3>4
  <2> QED BY <2>1, <2>2, <2>3
<1>20. choice' # choice => S!Replaced /\ choice' = S!Automatic
    BY <1>3, <1>9, <1>12
<1>21. ASSUME notice' \notin {notice, None}
       PROVE  notice'.old # notice'.new /\ known \in {{}, notice'.old} /\ notice'.new = S!InForce'
  <2>1. /\ res # {} /\ before \notin {{}, res}
        /\ notice' = d.notice /\ notice'.old = before /\ notice'.new = res
      BY <1>21, <1>11, <1>14
  <2>2. known # {} => known = before
    <3>1. CASE prev # None
        BY <3>1, <1>8, <1>15
    <3>2. CASE prev = None /\ rep
        BY <3>2, <1>8, <1>15
    <3>3. CASE prev = None /\ ~rep
        BY <3>3, <2>1, <1>8
    <3> QED BY <3>1, <3>2, <3>3
  <2>3. S!InForce' = res
    <3>1. house' = house /\ S!Assigned' = S!Assigned
        BY DEF Carried, S!Assigned
    <3>2. CASE rep
      <4>1. choice' = S!Automatic /\ S!Automatic # None /\ house # {} /\ res = S!Assigned
          BY <3>2, <1>0, <1>3, <1>9, <1>12, WhatIsResolved DEF S!Automatic, S!Choices
      <4> QED BY <4>1, <3>1 DEF S!InForce
    <3>3. CASE ~rep
      <4>1. choice' = choice /\ res = S!InForce
          BY <3>3, <1>3, <1>9, <1>12, WhatIsResolved
      <4> QED BY <4>1, <3>1 DEF S!InForce
    <3> QED BY <3>2, <3>3
  <2> QED BY <2>1, <2>2, <2>3
<1>22. d.row = None => UNCHANGED <<known, choice>>
    BY <1>4, <1>9, <1>10, <1>11, <1>12, <1>13
<1> QED BY <1>12, <1>17, <1>18, <1>19, <1>20, <1>21, <1>22 DEF Tells, Knows, Sound

(* Steps that leave the link, the rows and the decision alone.                *)
LEMMA OthersStay ==
    ASSUME S!FollowerConstants, Followed,
           UNCHANGED <<choice, saves, S!store, known, life>>,
           house' \in S!Choices, offered' \in S!Choices, moves' \in 0..MaxMoves,
           stops' \in 0..MaxStops, restart' \in BOOLEAN, notice' \in S!Notices \cup {None},
           repeat' \in BOOLEAN,
           \/ UNCHANGED task
           \/ life = "up" /\ task' \in {[step |-> "run"], None}
    PROVE  Followed'
<1> USE DEF S!store
<1>0. None \notin S!Tasks /\ [step |-> "run"] \in S!Tasks /\ [step |-> "run"].step # "save"
    BY DEF S!FollowerConstants, S!Tasks
<1>1. S!Saving' => S!Saving /\ UNCHANGED task
    BY <1>0 DEF S!Saving
<1>2. Types'
  <2>1. task' \in S!Tasks \cup {None}
      BY <1>0 DEF Followed, Types
  <2>2. life' = "down" => ~needs' /\ task' = None
      BY DEF Followed, Types
  <2>3. S!Saving' => task'.edit <= saves' /\ Sound(task.row)'
      BY <1>1 DEF Followed, Types, Sound
  <2>4. S!TypeOK'
      BY <1>1 DEF Followed, Types, S!TypeOK
  <2> QED BY <2>1, <2>2, <2>3, <2>4 DEF Types, Followed
<1>3. Sound(records)' /\ Sound(file)' /\ Knows'
    BY DEF Followed, Sound, Knows
<1>4. (life' = "up" => Tells(records)') /\ (~needs' => Tells(file)' /\ records' \in {file', None})
    BY DEF Followed, Tells
<1>5. S!Saving' /\ task'.edit = saves' => Agrees(task)'
  <2> SUFFICES ASSUME S!Saving', task'.edit = saves' PROVE Agrees(task)'
      OBVIOUS
  <2>1. Agrees(task) /\ UNCHANGED <<task, S!Previous>>
      BY <1>1 DEF Followed, S!Previous
  <2> QED BY <2>1 DEF Agrees, OldLink, OldBefore
<1> QED BY <1>2, <1>3, <1>4, <1>5 DEF Followed

LEMMA FollowedNext == ASSUME S!FollowerConstants, Followed, [S!Next]_(S!vars) PROVE Followed'
<1>0. /\ MaxMoves \in Nat /\ MaxEdits \in Nat /\ MaxStops \in Nat
      /\ None \notin S!Tasks /\ None \notin S!Rows /\ \A groups \in S!Choices : groups # None
      /\ house \in S!Choices /\ offered \in S!Choices /\ choice \in S!Links
      /\ saves \in 0..MaxEdits /\ moves \in 0..MaxMoves /\ stops \in 0..MaxStops
      /\ life \in {"down", "up"} /\ restart \in BOOLEAN /\ repeat \in BOOLEAN /\ needs \in BOOLEAN
      /\ records \in S!Rows \cup {None} /\ file \in S!Rows \cup {None}
      /\ known \in S!Choices /\ notice \in S!Notices \cup {None}
      /\ task \in S!Tasks \cup {None} /\ S!Saving => needs
      /\ life = "down" => ~needs /\ task = None
    BY DEF S!FollowerConstants, Followed, Types, S!TypeOK
<1>1. [step |-> "run"] \in S!Tasks /\ [step |-> "run"].step # "save"
    BY DEF S!Tasks
<1>2. S!Run \/ S!Saving => life = "up"
    BY <1>0 DEF S!Run, S!Saving
<1>3. S!Saving => /\ task.edit \in 0..MaxEdits /\ task.edit <= saves
                   /\ task.row \in S!Rows \cup {None} /\ Sound(task.row)
  <2> SUFFICES ASSUME S!Saving
               PROVE  task.edit \in 0..MaxEdits /\ task.row \in S!Rows \cup {None}
      BY DEF Followed, Types
  <2>1. task \in [step : {"save"}, edit : 0..MaxEdits, seen : BOOLEAN \X S!Choices \X BOOLEAN,
                   link : S!Links, row : S!Rows \cup {None}, notice : S!Notices \cup {None}]
    <3>1. task \in S!Tasks /\ task.step = "save"
        BY DEF S!Saving, Followed, Types
    <3>2. \A u \in [step : {"run"}] : u.step # "save"
        OBVIOUS
    <3> QED BY ONLY <3>1, <3>2 DEF S!Tasks
  <2> QED BY <2>1
<1>4. CASE S!SourceChanges
  <2>1. /\ UNCHANGED <<choice, saves, restart, S!store, known, life, notice, stops>>
        /\ house' \in S!Choices /\ offered' \in S!Choices /\ moves' \in 0..MaxMoves
      BY <1>4, <1>0 DEF S!SourceChanges, S!options
  <2>2. /\ repeat' \in BOOLEAN
        /\ UNCHANGED task \/ (life = "up" /\ task' \in {[step |-> "run"], None})
      BY <1>4, <1>0 DEF S!SourceChanges, S!Noticed, S!Updated
  <2> QED BY <2>1, <2>2, <1>0, OthersStay
<1>5. CASE S!Poll
  <2>1. UNCHANGED <<house, offered, moves, choice, saves, restart, S!store, known, life, notice, stops>>
      BY <1>5 DEF S!Poll, S!options, S!source
  <2>2. /\ repeat' \in BOOLEAN
        /\ UNCHANGED task \/ (life = "up" /\ task' \in {[step |-> "run"], None})
      BY <1>5, <1>0 DEF S!Poll, S!Updated
  <2> QED BY <2>1, <2>2, <1>0, OthersStay
<1>6. CASE S!SaveFails
  <2>1. UNCHANGED <<house, offered, moves, choice, saves, restart, S!store, known, life, notice, stops>>
      BY <1>6 DEF S!SaveFails, S!options, S!source
  <2>2. repeat' \in BOOLEAN /\ life = "up" /\ task' \in {[step |-> "run"], None}
      BY <1>6, <1>0, <1>2 DEF S!SaveFails, S!Finished
  <2> QED BY <2>1, <2>2, <1>0, OthersStay
<1>7. CASE UNCHANGED S!vars
  <2>1. UNCHANGED <<house, offered, moves, choice, saves, restart, S!store, known, life, notice, stops,
                    task, repeat>>
      BY <1>7 DEF S!vars, S!options, S!source
  <2> QED BY <2>1, <1>0, OthersStay
<1>8. CASE S!SaveForm
  <2>1. /\ UNCHANGED <<house, offered, moves, S!store, life, notice, stops>>
        /\ saves' = saves + 1 /\ saves' \in 0..MaxEdits /\ restart' = TRUE
        /\ choice' \in {choice, None} \cup SUBSET house
        /\ known' = IF choice' = choice THEN known ELSE IF choice' = None THEN {} ELSE choice'
      BY <1>8, <1>0 DEF S!SaveForm, S!source
  <2>2. /\ repeat' \in BOOLEAN /\ task' \in {task, [step |-> "run"]}
        /\ life # "up" => UNCHANGED task
      BY <1>8, <1>0 DEF S!SaveForm, S!Noticed, S!Updated
  <2>3. S!Saving' => S!Saving /\ UNCHANGED task /\ task.edit < saves'
    <3>1. S!Saving' => S!Saving /\ UNCHANGED task
        BY <2>2, <1>1 DEF S!Saving
    <3> QED BY <3>1, <1>3, <2>1, <1>0
  <2>4. choice' \in S!Links /\ known' \in S!Choices
      BY <2>1, <1>0 DEF S!Links, S!Choices
  <2>5. Types'
    <3>1. S!Saving' => needs' /\ task'.edit <= saves' /\ Sound(task.row)'
      <4> SUFFICES ASSUME S!Saving'
                   PROVE  needs' /\ task'.edit <= saves' /\ Sound(task.row)'
          OBVIOUS
      <4>1. S!Saving /\ UNCHANGED <<task, needs>> /\ task.edit < saves'
          BY <2>1, <2>3 DEF S!store
      <4>2. task.edit <= saves' /\ Sound(task.row)
          BY <4>1, <2>1, <1>0, <1>3
      <4>3. needs' /\ task'.edit <= saves'
          BY <4>1, <4>2 DEF Followed, Types, S!TypeOK
      <4>4. Sound(task.row)'
          BY <4>1, <4>2 DEF Sound
      <4> QED BY <4>3, <4>4
    <3>2. UNCHANGED <<records, file, needs>> /\ restart' \in BOOLEAN
        BY <2>1 DEF S!store
    <3>3. S!TypeOK'
        BY <2>1, <2>2, <2>4, <3>1, <3>2, <1>0 DEF S!TypeOK
    <3>4. task' \in S!Tasks \cup {None} /\ (life' = "down" => ~needs' /\ task' = None)
      <4>1. task' \in S!Tasks \cup {None}
          BY <2>2, <1>1 DEF Followed, Types
      <4>2. life' = "down" => ~needs' /\ task' = None
          BY <2>1, <2>2, <3>2, <1>0
      <4> QED BY <4>1, <4>2
    <3> QED BY <3>1, <3>2, <3>3, <3>4, <1>0 DEF Types
  <2>6. Sound(records)' /\ Sound(file)'
      BY <2>1 DEF Followed, Sound, S!store
  <2>7. Knows'
      BY <2>1 DEF Followed, Knows
  <2>8. ASSUME NEW r, Sound(r), Tells(r) PROVE
          known' # {} => /\ r # None /\ r.link = choice' => r.groups = known'
                         /\ choice' = S!Automatic => r # None /\ r.link = choice'
    <3>1. CASE choice' = choice
        BY <3>1, <2>1, <2>8 DEF Tells
    <3>2. CASE choice' # choice
        BY <3>2, <2>1, <2>8 DEF Sound, S!Automatic
    <3> QED BY <3>1, <3>2
  <2>9. (life' = "up" => Tells(records)') /\ (~needs' => Tells(file)' /\ records' \in {file', None})
      BY <2>1, <2>8 DEF Followed, Tells, S!store
  <2>10. ~(S!Saving' /\ task'.edit = saves')
    <3> SUFFICES ASSUME S!Saving' PROVE task'.edit < saves' /\ saves' \in Nat /\ task'.edit \in Nat
        OBVIOUS
    <3> QED BY <2>3, <2>1, <1>0, <1>3
  <2> QED BY <2>5, <2>6, <2>7, <2>9, <2>10 DEF Followed
<1>9. CASE S!Start
  <2>1. /\ UNCHANGED <<house, offered, moves, choice, saves, restart, file, needs, notice, stops>>
        /\ life = "down" /\ life' = "up" /\ repeat' = TRUE /\ task' = [step |-> "run"]
        /\ (records' = file /\ known' = known) \/ (records' = None /\ known' = {})
    <3>1. life = "down" /\ life' = "up" /\ repeat' = TRUE /\ task' = [step |-> "run"]
        BY <1>9 DEF S!Start
    <3>2. UNCHANGED <<house, offered, moves, choice, saves, restart, file, needs, notice, stops>>
        BY <1>9 DEF S!Start, S!options, S!source
    <3>3. (records' = file /\ known' = known) \/ (records' = None /\ known' = {})
        BY <1>9 DEF S!Start
    <3> QED BY <3>1, <3>2, <3>3
  <2>2. ~S!Saving'
      BY <2>1 DEF S!Saving
  <2>3. Types'
      BY <2>1, <2>2, <1>0, <1>1 DEF Types, S!TypeOK, S!Choices
  <2>4. Sound(records)' /\ Sound(file)' /\ Knows'
      BY <2>1 DEF Followed, Sound, Knows
  <2>5. Tells(records)' /\ (~needs' => Tells(file)' /\ records' \in {file', None})
      BY <2>1, <1>0 DEF Followed, Tells
  <2> QED BY <2>2, <2>3, <2>4, <2>5 DEF Followed
<1>10. CASE S!Stop
  <2>1. /\ UNCHANGED <<house, offered, moves, choice, saves>>
        /\ life' = "down" /\ restart' = FALSE /\ repeat' = FALSE /\ task' = None
        /\ records' = None /\ needs' = FALSE /\ known' = IF needs THEN {} ELSE known
        /\ file' = file \/ (S!Saving /\ file' = task.row)
        /\ notice' \in {notice, None} /\ stops' \in 0..MaxStops
      BY <1>10, <1>0 DEF S!Stop, S!source
  <2>2. ~S!Saving'
      BY <2>1 DEF S!Saving
  <2>3. S!Saving => task.row \in S!Rows \cup {None} /\ Sound(task.row)
      BY <1>0 DEF S!Saving, S!Tasks, Followed, Types
  <2>4. Types'
      BY <2>1, <2>2, <2>3, <1>0 DEF Types, S!TypeOK, S!Choices
  <2>5. Sound(records)' /\ Sound(file)' /\ Knows'
      BY <2>1, <2>3 DEF Followed, Sound, Knows
  <2>6. Tells(file)'
    <3>1. CASE needs
        BY <3>1, <2>1 DEF Tells
    <3>2. CASE ~needs
      <4>1. file' = file /\ UNCHANGED <<known, choice>> /\ Tells(file)
          BY <3>2, <2>1 DEF Followed, Types, S!TypeOK
      <4> QED BY <4>1 DEF Tells
    <3> QED BY <3>1, <3>2
  <2> QED BY <2>1, <2>2, <2>4, <2>5, <2>6 DEF Followed
<1>11. CASE S!Reconcile
  <2>1. /\ UNCHANGED <<house, offered, moves, choice, saves, restart, records, file, life, notice, known,
                       stops>>
        /\ repeat' = FALSE /\ needs' = TRUE /\ task' = S!Decided /\ S!Run
      BY <1>11 DEF S!Reconcile, S!options, S!source
  <2>2. task' \in S!Tasks /\ Agrees(S!Decided) /\ Sound(S!Decided.row) /\ task'.edit = saves
      BY <2>1, WhatIsDecided DEF S!Decided
  <2>3. Types'
    <3>1. S!TypeOK'
        BY <2>1, <1>0 DEF S!TypeOK
    <3>2. task'.edit <= saves' /\ Sound(task.row)'
        BY <2>1, <2>2, <1>0 DEF Sound
    <3> QED BY <3>1, <3>2, <2>1, <2>2, <1>2 DEF Types
  <2>4. Sound(records)' /\ Sound(file)' /\ Knows' /\ Tells(records)'
      BY <2>1, <1>2 DEF Followed, Sound, Knows, Tells
  <2>5. Agrees(task)'
    <3>1. UNCHANGED S!Previous
        BY <2>1 DEF S!Previous
    <3> QED BY <3>1, <2>1, <2>2 DEF Agrees, OldLink, OldBefore
  <2> QED BY <2>1, <2>3, <2>4, <2>5 DEF Followed
<1>12. ASSUME NEW d, Carried(d), life = "up",
              UNCHANGED <<moves, saves, life, stops>>, restart' \in BOOLEAN, needs' = FALSE,
              file' = d.row \/ (UNCHANGED file /\ ~needs /\ d.row = records),
              repeat' \in BOOLEAN, task' \in {[step |-> "run"], None}
       PROVE  Followed'
  <2>1. /\ Tells(records)' /\ Knows' /\ Sound(records)'
        /\ records' \in S!Rows \cup {None} /\ choice' \in S!Links
        /\ known' \in S!Choices /\ notice' \in S!Notices \cup {None}
      BY <1>12, CarriedStays
  <2>2. ~S!Saving' /\ task' \in S!Tasks \cup {None}
      BY <1>12, <1>1 DEF S!Saving
  <2>3. records' = d.row /\ UNCHANGED <<house, offered>>
      BY <1>12 DEF Carried
  <2>4. Types'
      BY <2>1, <2>2, <2>3, <1>12, <1>0 DEF Types, S!TypeOK
  <2>5. Sound(file)' /\ Tells(file)' /\ records' \in {file', None}
    <3>1. CASE file' = records'
        BY <3>1, <2>1 DEF Sound, Tells
    <3>2. CASE UNCHANGED file /\ ~needs /\ d.row = records /\ file # records
      <4>1. d.row = None /\ UNCHANGED <<known, choice, file>>
          BY <3>2, <1>12, CarriedStays DEF Followed
      <4> QED BY <4>1, <3>2, <2>3 DEF Followed, Sound, Tells
    <3> QED BY <3>1, <3>2, <2>3, <1>12
  <2> QED BY <1>12, <2>1, <2>2, <2>4, <2>5 DEF Followed
<1>13. CASE S!ReconcileAtOnce
  <2> DEFINE d == S!Decided
  <2>1. /\ S!Run /\ ~needs /\ d.row = records
        /\ choice' = S!NewLink /\ restart' = (restart \/ S!NewLink # choice)
        /\ needs' = FALSE /\ S!Announce(d) /\ S!Told(d) /\ S!Finished(S!NewLink # choice)
        /\ UNCHANGED <<house, offered, moves, saves, records, file, life, stops>>
      BY <1>13 DEF S!ReconcileAtOnce, S!source
  <2>2. /\ d.link = S!NewLink /\ d.seen = <<house = {}, S!Resolved, S!Replaced>> /\ d.step = "save"
      BY DEF S!Decided
  <2>3. Carried(d)
      BY <2>1, <2>2, WhatIsDecided DEF Carried
  <2>4. /\ restart' \in BOOLEAN /\ repeat' \in BOOLEAN /\ task' \in {[step |-> "run"], None}
      BY <2>1 DEF S!Finished
  <2> HIDE DEF d
  <2> QED BY <2>1, <2>3, <2>4, <1>2, <1>12
<1>14. CASE S!Saved
  <2>1. /\ S!Saving /\ life = "up" /\ needs /\ file' = task.row /\ S!Apply(task)
        /\ task \in S!Tasks /\ task.step = "save" /\ Sound(task.row)
        /\ UNCHANGED <<house, offered, moves, saves, life, stops>>
      BY <1>14, <1>0, <1>2 DEF S!Saved, S!source, S!Saving, Followed, Types
  <2>2. CASE task.edit = saves /\ task.seen = <<house = {}, S!Resolved, S!Replaced>>
    <3>1. /\ records' = task.row /\ needs' = FALSE /\ choice' = task.link
          /\ restart' = (restart \/ task.link # choice)
          /\ S!Announce(task) /\ S!Told(task) /\ S!Finished(repeat \/ task.link # choice)
        BY <2>1, <2>2 DEF S!Apply
    <3>2. Carried(task)
        BY <2>1, <2>2, <3>1 DEF Carried, Followed
    <3>3. restart' \in BOOLEAN /\ repeat' \in BOOLEAN /\ task' \in {[step |-> "run"], None}
        BY <3>1 DEF S!Finished
    <3> QED BY <2>1, <3>1, <3>2, <3>3, <1>12
  <2>3. CASE ~(task.edit = saves /\ task.seen = <<house = {}, S!Resolved, S!Replaced>>)
    <3>1. /\ UNCHANGED <<records, choice, restart, notice, known>> /\ needs' = TRUE
          /\ repeat' = TRUE /\ task' = [step |-> "run"]
        BY <2>1, <2>3 DEF S!Apply, S!Finished
    <3>2. ~S!Saving'
        BY <3>1 DEF S!Saving
    <3>3. task.row \in S!Rows \cup {None}
        BY <2>1 DEF S!Tasks
    <3>4. Types'
        BY <2>1, <3>1, <3>2, <3>3, <1>0, <1>1 DEF Types, S!TypeOK
    <3>5. Sound(records)' /\ Sound(file)' /\ Knows' /\ Tells(records)'
        BY <2>1, <3>1 DEF Followed, Sound, Knows, Tells
    <3> QED BY <3>1, <3>2, <3>4, <3>5 DEF Followed
  <2> QED BY <2>2, <2>3
<1> QED
    BY <1>4, <1>5, <1>6, <1>7, <1>8, <1>9, <1>10, <1>11, <1>13, <1>14 DEF S!Next

-------------------------------------------------------------------------------
(* A step writes a link, or announces groups, only by carrying a decision out.*)
LEMMA StepsAreNews == ASSUME S!FollowerConstants, Followed, [S!Next]_(S!vars)
                      PROVE  S!KeepsChoice /\ S!TellsNews
<1>1. ASSUME NEW d, Carried(d), life = "up" PROVE S!KeepsChoice /\ S!TellsNews
    BY <1>1, CarriedStays DEF S!KeepsChoice, S!TellsNews
<1>2. CASE UNCHANGED <<choice, saves>> /\ notice' \in {notice, None}
    BY <1>2 DEF S!KeepsChoice, S!TellsNews
<1>3. CASE S!SaveForm
    BY <1>3 DEF S!SaveForm, S!KeepsChoice, S!TellsNews, Followed, Types, S!TypeOK
<1>4. CASE S!ReconcileAtOnce
  <2> DEFINE d == S!Decided
  <2>1. /\ life = "up" /\ d.row = records
        /\ choice' = S!NewLink /\ S!Announce(d) /\ S!Told(d)
        /\ UNCHANGED <<house, offered, records>>
      BY <1>4 DEF S!ReconcileAtOnce, S!source, S!Run, Followed, Types, S!TypeOK
  <2>2. /\ d.link = S!NewLink /\ d.seen = <<house = {}, S!Resolved, S!Replaced>> /\ d.step = "save"
      BY DEF S!Decided
  <2>3. Carried(d)
      BY <2>1, <2>2, WhatIsDecided DEF Carried
  <2> HIDE DEF d
  <2> QED BY <2>1, <2>3, <1>1
<1>5. CASE S!Saved
  <2>1. /\ S!Saving /\ life = "up" /\ S!Apply(task) /\ UNCHANGED <<house, offered, saves>>
        /\ task \in S!Tasks /\ task.step = "save" /\ Sound(task.row)
      BY <1>5 DEF S!Saved, S!source, S!Saving, Followed, Types, S!TypeOK
  <2>2. CASE task.edit = saves /\ task.seen = <<house = {}, S!Resolved, S!Replaced>>
    <3>1. /\ records' = task.row /\ choice' = task.link /\ S!Announce(task) /\ S!Told(task)
        BY <2>1, <2>2 DEF S!Apply
    <3>2. Carried(task)
        BY <2>1, <2>2, <3>1 DEF Carried, Followed
    <3> QED BY <2>1, <3>2, <1>1
  <2>3. CASE ~(task.edit = saves /\ task.seen = <<house = {}, S!Resolved, S!Replaced>>)
      BY <2>1, <2>3, <1>2 DEF S!Apply
  <2> QED BY <2>2, <2>3
<1>6. CASE S!SourceChanges \/ S!Poll \/ S!Start \/ S!Reconcile \/ S!SaveFails \/ UNCHANGED S!vars
    BY <1>6, <1>2 DEF S!SourceChanges, S!Poll, S!Start, S!Reconcile, S!SaveFails, S!vars, S!options
<1>7. CASE S!Stop
    BY <1>7, <1>2 DEF S!Stop
<1> QED BY <1>3, <1>4, <1>5, <1>6, <1>7 DEF S!Next

-------------------------------------------------------------------------------
(* One entry of an address, results about the data they were read for, known  *)
(* to the listeners, and no group that changed without a notification: for    *)
(* any number of cabinets, entries, accounts, groups, updates, forms and      *)
(* restarts (account_buildings.py:36-53, account_groups.py:81-117, :163-174,  *)
(* account_schedule_updates.py:126-150).                                      *)
THEOREM WhatIsKnownIsCurrent == B!Spec /\ C!Spec /\ S!Spec => []KnownIsCurrent
<1>0. B!BuildingConstants /\ C!GroupConstants /\ S!FollowerConstants
    BY GroupsAssumption
<1>1. B!Spec => []Settled
  <2>1. B!Init => Settled
      BY <1>0, SettledInit
  <2>2. Settled /\ [B!Next]_(B!vars) => Settled'
      BY <1>0, SettledNext
  <2> QED BY <2>1, <2>2, PTL DEF B!Spec
<1>2. C!Spec => []Refreshed
  <2>1. C!Init => Refreshed
      BY <1>0, RefreshedInit
  <2>2. Refreshed /\ [C!Next]_(C!vars) => Refreshed'
      BY <1>0, RefreshedNext
  <2> QED BY <2>1, <2>2, PTL DEF C!Spec
<1>3. S!Spec => []Followed
  <2>1. S!Init => Followed
      BY <1>0, FollowedInit
  <2>2. Followed /\ [S!Next]_(S!vars) => Followed'
      BY <1>0, FollowedNext
  <2> QED BY <2>1, <2>2, PTL DEF S!Spec
<1>4. Settled => B!TypeOK /\ B!OneEntryPerAddress
  <2> SUFFICES ASSUME Settled PROVE B!OneEntryPerAddress
      BY DEF Settled
  <2>1. IsFiniteSet(B!Public)
    <3>1. IsFiniteSet(B!Ids)
        BY <1>0, FS_Interval DEF B!BuildingConstants, B!Ids
    <3> QED BY <3>1, FS_Subset DEF B!Public
  <2>2. B!Public = {} \/ \E i : B!Public = {i}
      BY DEF Settled, Single
  <2>3. Cardinality(B!Public) \in {0, 1}
      BY <2>1, <2>2, FS_EmptySet, FS_Singleton
  <2> QED BY <2>3, SameCount DEF B!OneEntryPerAddress
<1>5. Refreshed => C!TypeOK /\ C!IdleIsCurrent /\ C!ListenersAreTold
    BY DEF Refreshed
<1>6. Followed => S!TypeOK /\ S!NoSilentChange
    BY DEF Followed, Types, Tells, S!NoSilentChange
<1>7. Settled /\ Refreshed /\ Followed => KnownIsCurrent
    BY <1>4, <1>5, <1>6 DEF KnownIsCurrent, MCTypeOK
<1> QED BY <1>1, <1>2, <1>3, <1>7, PTL

(* What a user chose stands, and what is notified is news, whatever the       *)
(* discovery, the house and the forms do while a decision is being saved      *)
(* (account_buildings.py:95-102, :152-159,                                    *)
(* account_schedule_updates.py:102-103, :117, :126, :138-145).                *)
THEOREM ChoicesAreKept == B!Spec /\ S!Spec => ChoicesStand
<1>0. B!BuildingConstants /\ S!FollowerConstants
    BY GroupsAssumption
<1>1. S!Init => Followed
    BY <1>0, FollowedInit
<1>2. Followed /\ [S!Next]_(S!vars) => Followed'
    BY <1>0, FollowedNext
<1>3. Followed /\ [S!Next]_(S!vars) => S!KeepsChoice /\ S!TellsNews
    BY <1>0, StepsAreNews
<1>4. B!KeepsLink
  <2> SUFFICES ASSUME NEW c \in Cabinets, B!Write(c), link'[c] # link[c] PROVE link[c] = None
      BY DEF B!KeepsLink
  <2>1. B!Active(<<"task", c>>)
      BY DEF B!Write
  <2> QED BY <2>1 DEF B!Active
<1>5. Followed /\ [S!Next]_(S!vars) =>
          [/\ subject = "building" => B!KeepsLink
           /\ subject = "group" => S!KeepsChoice /\ S!TellsNews]_allvars
    BY <1>3, <1>4
<1> QED BY <1>1, <1>2, <1>5, PTL DEF S!Spec, ChoicesStand

-------------------------------------------------------------------------------
(* The composition of the run: each component takes a step of its own or      *)
(* stutters, so that what is proved of a component holds of every behaviour   *)
(* the run explores.                                                          *)
THEOREM CompositionRefines == MCSpec => Spec /\ B!Spec /\ C!Spec /\ S!Spec /\ E!Spec
<1>1. MCInit => Init /\ B!Init /\ C!Init /\ S!Init /\ E!Init
    BY DEF MCInit
<1>2. ASSUME [MCNext]_allvars
      PROVE  /\ [Next]_vars /\ [B!Next]_(B!vars) /\ [C!Next]_(C!vars) /\ [S!Next]_(S!vars)
             /\ [E!Next]_(E!vars)
  <2>1. UNCHANGED bvars => UNCHANGED B!vars
      BY DEF bvars, B!vars
  <2>2. UNCHANGED cvars => UNCHANGED C!vars
      BY DEF cvars, C!vars, C!world
  <2>3. UNCHANGED svars => UNCHANGED S!vars
      BY DEF svars, S!vars, S!source, S!options, S!store
  <2>4. UNCHANGED evars => UNCHANGED E!vars
      BY DEF evars, E!vars, E!programVars, E!worldVars, E!ghostVars
  <2>5. CASE Linking(Next)
      BY <2>1, <2>2, <2>3, <2>4, <2>5 DEF Linking
  <2>6. CASE Finding(B!Next)
      BY <2>2, <2>3, <2>4, <2>6 DEF Finding
  <2>7. CASE Reading(C!Next)
      BY <2>1, <2>3, <2>4, <2>7 DEF Reading
  <2>8. CASE Following(S!Next)
      BY <2>1, <2>2, <2>4, <2>8 DEF Following
  <2>9. CASE Tracking(E!Next)
      BY <2>1, <2>2, <2>3, <2>9 DEF Tracking
  <2>10. CASE UNCHANGED allvars
      BY <2>1, <2>2, <2>3, <2>4, <2>10 DEF allvars
  <2> QED BY <1>2, <2>5, <2>6, <2>7, <2>8, <2>9, <2>10 DEF MCNext
<1> QED BY <1>1, <1>2, PTL DEF MCSpec, Spec, B!Spec, C!Spec, S!Spec, E!Spec
=================================================================================
