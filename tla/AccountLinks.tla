------------------------------ MODULE AccountLinks ------------------------------
(* Linking an account to the cabinet, and unlinking it, from the setup and    *)
(* options dialogs (account_link_flow.py, account_links.py): the cabinet is   *)
(* looked at, the user reviews what was found, and a confirmation writes      *)
(* once.  Several dialogs, the choice of monitored accounts, the operator and *)
(* a lost answer meet there.                                                  *)
EXTENDS Integers, FiniteSets

CONSTANTS
    Flows,          \* open dialogs of one entry, for one account number
    Entries,        \* entries that may monitor that number
    Calls,          \* requests of the dialogs that Home Assistant handles
    MaxConfirms,    \* bound: confirmations by the user
    MaxChanges,     \* bound: changes by the operator, forms saved elsewhere
    NoCall, NoReview, Nobody

Addresses == {1, 2}
Closed == 0             \* _link_identity of a dialog that was removed
Sessions == {1, 2}      \* the credentials of the entry

Kinds == {"link", "unlink"}
Steps == {"queued", "login", "list", "lookup", "token", "sent", "found"}

(* What a request of a dialog knows.                                          *)
CallRecords ==
    [step : Steps, flow : Flows, kind : Kinds, change : BOOLEAN, seen : Addresses,
     identity : Sessions, expired : BOOLEAN, since : SUBSET Addresses]

(* What the theorems assume of the constants.                                 *)
LinkConstants == IsFiniteSet(Calls) /\ NoCall \notin CallRecords /\ Nobody \notin Calls

VARIABLES
    linked,     \* the account is linked in the cabinet
    address,    \* its address in the operator's directory
    session,    \* entry.data: user name, password and subject
    monitored,  \* the entries with the account in entry.data["accounts"]
    entities,   \* the entries with entities of the account in the registry
    identity,   \* _link_identity
    review,     \* _link_review: what the user sees and may confirm
    calls,      \* the coroutines, with what they know
    lock,       \* the lock of the cabinet's subject
    confirms, sent, changes     \* ghosts: counters

cabinet == <<linked, address>>
entry == <<session, monitored, entities>>
counters == <<confirms, sent, changes>>
vars == <<cabinet, entry, identity, review, calls, lock, counters>>

Init ==
    /\ linked \in BOOLEAN /\ address = 1
    /\ session = 1 /\ monitored = {} /\ entities = {}
    /\ identity = [f \in Flows |-> 1] /\ review = [f \in Flows |-> NoReview]
    /\ calls = [c \in Calls |-> NoCall]
    /\ lock = Nobody
    /\ confirms = 0 /\ sent = 0 /\ changes = 0

Running(c) == calls[c] # NoCall
At(c, step) == Running(c) /\ calls[c].step = step

To(c, step) == calls' = [calls EXCEPT ![c].step = step]

Release(c) == lock' = IF lock = c THEN Nobody ELSE lock

-------------------------------------------------------------------------------
(* The rest of the system                                                     *)

Changes == changes < MaxChanges /\ changes' = changes + 1

(* The account is linked or unlinked elsewhere, or by a request whose client  *)
(* has given up.                                                              *)
CabinetChanges ==
    /\ Changes /\ linked' = ~linked
    /\ UNCHANGED <<address, entry, identity, review, calls, lock, confirms, sent>>

(* The number is given to another customer; calls remember what was true      *)
(* since they were started.                                                   *)
DirectoryChanges ==
    /\ Changes
    /\ \E a \in Addresses \ {address} :
        /\ address' = a
        /\ calls' = [c \in Calls |->
             IF Running(c) THEN [calls[c] EXCEPT !.since = @ \cup {a}] ELSE NoCall]
    /\ UNCHANGED <<linked, entry, identity, review, lock, confirms, sent>>

(* Another password is entered, or the entry is removed.                      *)
SessionChanges ==
    /\ Changes /\ session' \in Sessions \ {session}
    /\ UNCHANGED <<cabinet, monitored, entities, identity, review, calls, lock, confirms, sent>>

(* select_account_options(): no other entry may have claimed the account.     *)
Select(e) ==
    /\ Changes
    /\ \/ e \in monitored /\ monitored' = monitored \ {e}
       \/ monitored = {} /\ monitored' = {e}
    /\ UNCHANGED <<cabinet, session, entities, identity, review, calls, lock, confirms, sent>>

(* The reload: submissions are drained before the entities are removed.       *)
Reload(e) ==
    /\ (e \in monitored) # (e \in entities)
    /\ entities' = IF e \in monitored THEN entities \cup {e} ELSE entities \ {e}
    /\ UNCHANGED <<cabinet, session, monitored, identity, review, calls, lock, counters>>

(* 300 seconds pass.  The list of accounts to unlink does not expire.         *)
Expire(f) ==
    /\ review[f] # NoReview /\ ~review[f].expired
    /\ review[f].picked \/ review[f].kind = "link"
    /\ review' = [review EXCEPT ![f].expired = TRUE]
    /\ UNCHANGED <<cabinet, entry, identity, calls, lock, counters>>

ExpireCall(c) ==
    /\ Running(c) /\ calls[c].change /\ ~calls[c].expired
    /\ calls' = [calls EXCEPT ![c].expired = TRUE]
    /\ UNCHANGED <<cabinet, entry, identity, review, lock, counters>>

(* async_remove(), while a call of the dialog may go on                       *)
CloseFlow(f) ==
    /\ identity[f] # Closed
    /\ identity' = [identity EXCEPT ![f] = Closed]
    /\ review' = [review EXCEPT ![f] = NoReview]
    /\ UNCHANGED <<cabinet, entry, calls, lock, counters>>

-------------------------------------------------------------------------------
(* Guards of the dialogs                                                      *)

Known(f) == identity[f] = session           \* _link_context()

(* _assert_unlink_safe()                                                      *)
Unused == monitored = {} /\ entities = {}

(* authorize(): checked with the review, and again right before the request   *)
Authorized(c) ==
    LET call == calls[c]
    IN  /\ Known(call.flow)
        /\ ~call.expired
        /\ call.kind = "unlink" => Unused

Begin(f, c, kind, change, seen) ==
    /\ Known(f)
    /\ calls' = [calls EXCEPT ![c] =
         [step |-> "queued", flow |-> f, kind |-> kind, change |-> change, seen |-> seen,
          identity |-> session, expired |-> FALSE, since |-> {address}]]

-------------------------------------------------------------------------------
(* What users do in a dialog                                                  *)

Ask(f, c, kind) ==
    /\ calls[c] = NoCall /\ identity[f] # Closed
    /\ review' = [review EXCEPT ![f] = NoReview]
    /\ Begin(f, c, kind, FALSE, address)
    /\ UNCHANGED <<cabinet, entry, identity, lock, counters>>

(* One of several accounts is picked, and shown for review.                   *)
Pick(f) ==
    /\ review[f] # NoReview /\ ~review[f].picked /\ ~review[f].expired
    /\ review[f].kind = "unlink" => Unused
    /\ review' = [review EXCEPT ![f].picked = TRUE]
    /\ UNCHANGED <<cabinet, entry, identity, calls, lock, counters>>

ConfirmTwice(f, c) ==                                               \* mutated
    /\ calls[c] = NoCall /\ review[f] # NoReview /\ review[f].picked /\ ~review[f].expired
    /\ confirms < MaxConfirms
    /\ confirms' = confirms + IF \E d \in Calls : Running(d) /\ calls[d].change THEN 0 ELSE 1
    /\ UNCHANGED review
    /\ Begin(f, c, review[f].kind, TRUE, review[f].address)
    /\ UNCHANGED <<cabinet, entry, identity, lock, sent, changes>>

(* The review is consumed before anything is awaited.                         *)
Confirm(f, c) ==
    /\ calls[c] = NoCall /\ review[f] # NoReview /\ review[f].picked /\ ~review[f].expired
    /\ confirms < MaxConfirms /\ confirms' = confirms + 1
    /\ review' = [review EXCEPT ![f] = NoReview]
    /\ Begin(f, c, review[f].kind, TRUE, review[f].address)
    /\ UNCHANGED <<cabinet, entry, identity, lock, sent, changes>>

(* A second submit of the same form, or one that came too late or in another  *)
(* session, ends the dialog.                                                  *)
ConfirmRefused(f) ==
    /\ identity[f] # Closed
    /\ \/ review[f] = NoReview
       \/ review[f] # NoReview /\ (review[f].expired \/ ~Known(f))
    /\ identity' = [identity EXCEPT ![f] = Closed]
    /\ review' = [review EXCEPT ![f] = NoReview]
    /\ UNCHANGED <<cabinet, entry, calls, lock, counters>>

-------------------------------------------------------------------------------
(* _with_link_client(): one client at a time signs in and works               *)

Lock(c) ==
    /\ At(c, "queued") /\ lock = Nobody
    /\ IF calls[c].identity = session /\ identity[calls[c].flow] \in {Closed, session}
       THEN lock' = c /\ To(c, "login")
       ELSE lock' = lock /\ calls' = [calls EXCEPT ![c] = NoCall]
    /\ UNCHANGED <<cabinet, entry, identity, review, counters>>

Ends(c) == calls' = [calls EXCEPT ![c] = NoCall] /\ Release(c)

(* The login, a request or a token fails: nothing was written.                *)
Fails(c) ==
    /\ Running(c) /\ calls[c].step \in {"login", "list", "lookup", "token"}
    /\ Ends(c)
    /\ UNCHANGED <<cabinet, entry, identity, review, counters>>

LoggedInUnlocks(c) ==                                               \* mutated
    /\ At(c, "login")
    /\ IF calls[c].identity = session /\ (calls[c].change => Authorized(c))
       THEN To(c, "list") /\ Release(c)
       ELSE Ends(c)
    /\ UNCHANGED <<cabinet, entry, identity, review, counters>>

LoggedIn(c) ==
    /\ At(c, "login")
    /\ IF calls[c].identity = session /\ (calls[c].change => Authorized(c))
       THEN To(c, "list") /\ UNCHANGED lock
       ELSE Ends(c)
    /\ UNCHANGED <<cabinet, entry, identity, review, counters>>

(* list_accounts(): what is to be linked is not, and the other way round, and *)
(* what is to be unlinked is what the user saw.                               *)
Listed(c) ==
    /\ At(c, "list")
    /\ IF linked # (calls[c].kind = "unlink") THEN Ends(c)
       ELSE IF ~linked THEN To(c, "lookup") /\ UNCHANGED lock
       ELSE IF ~calls[c].change
            THEN /\ calls' = [calls EXCEPT ![c].step = "found", ![c].seen = address]
                 /\ UNCHANGED lock
       ELSE IF calls[c].seen = address THEN To(c, "token") /\ UNCHANGED lock
       ELSE Ends(c)
    /\ UNCHANGED <<cabinet, entry, identity, review, counters>>

LookedUpUnchecked(c) ==                                             \* mutated
    /\ At(c, "lookup")
    /\ To(c, IF calls[c].change THEN "token" ELSE "found")
    /\ UNCHANGED <<cabinet, entry, identity, review, lock, counters>>

(* lookup_account()                                                           *)
LookedUp(c) ==
    /\ At(c, "lookup")
    /\ CASE ~calls[c].change ->
              /\ calls' = [calls EXCEPT ![c].step = "found", ![c].seen = address]
              /\ UNCHANGED lock
         [] calls[c].change /\ calls[c].seen = address -> To(c, "token") /\ UNCHANGED lock
         [] OTHER -> Ends(c)
    /\ UNCHANGED <<cabinet, entry, identity, review, counters>>

(* What was found is shown for review, or to pick from: accounts to unlink,   *)
(* and those of a legacy number.                                              *)
Found(c) ==
    /\ At(c, "found") /\ Ends(c)
    /\ LET f == calls[c].flow
       IN  IF calls[c].identity = session /\ identity[f] # Closed
           THEN \E picked \in {FALSE, calls[c].kind = "link"} :
                    review' = [review EXCEPT ![f] =
                        [kind |-> calls[c].kind, address |-> calls[c].seen,
                         expired |-> FALSE, picked |-> picked]]
           ELSE UNCHANGED review
    /\ UNCHANGED <<cabinet, entry, identity, counters>>

SendAuthorizedEarlier(c) ==                                         \* mutated
    /\ At(c, "token")
    /\ To(c, "sent") /\ sent' = sent + 1
    /\ UNCHANGED <<cabinet, entry, identity, review, lock, confirms, changes>>

(* _change_link()                                                             *)
Send(c) ==
    /\ At(c, "token") /\ Authorized(c)
    /\ To(c, "sent") /\ sent' = sent + 1
    /\ UNCHANGED <<cabinet, entry, identity, review, lock, confirms, changes>>

NotSent(c) ==
    /\ At(c, "token") /\ ~Authorized(c) /\ Ends(c)
    /\ UNCHANGED <<cabinet, entry, identity, review, counters>>

(* The cabinet has handled it or not; link_uncertain without an answer.  No   *)
(* retry either way.                                                          *)
Answered(c) ==
    /\ At(c, "sent") /\ Ends(c)
    /\ linked' \in {linked, calls[c].kind = "link"}
    /\ UNCHANGED <<address, entry, identity, review, counters>>

Next ==
    \/ CabinetChanges \/ DirectoryChanges \/ SessionChanges
    \/ \E e \in Entries : Select(e) \/ Reload(e)
    \/ \E f \in Flows :
        \/ Expire(f) \/ Pick(f) \/ CloseFlow(f) \/ ConfirmRefused(f)
        \/ \E c \in Calls :
            Confirm(f, c) \/ \E kind \in Kinds : Ask(f, c, kind)
    \/ \E c \in Calls :
        \/ ExpireCall(c) \/ Lock(c) \/ Fails(c) \/ LoggedIn(c) \/ Listed(c) \/ LookedUp(c)
        \/ Found(c) \/ Send(c) \/ NotSent(c) \/ Answered(c)

Spec == Init /\ [][Next]_vars

-------------------------------------------------------------------------------
(* The lock is held by a call that works, and by nothing else, so no failure, *)
(* no lost answer and no closed dialog keeps the others waiting for ever      *)
(* (account_link_flow.py:109-121).                                            *)
TypeOK ==
    /\ linked \in BOOLEAN /\ address \in Addresses /\ session \in Sessions
    /\ monitored \subseteq Entries /\ entities \subseteq Entries
    /\ identity \in [Flows -> Sessions \cup {Closed}]
    /\ \A c \in Calls : Running(c) /\ ~At(c, "queued") <=> lock = c

(* No double submit, expired review, lost answer or reopened dialog writes to *)
(* the cabinet more often than the user confirmed                             *)
(* (account_link_flow.py:315-316, account_links.py:146-173).                  *)
OneWritePerConfirmation == sent <= confirms

Sends == sent' # sent

(* An account is never unlinked while an entry monitors it or has entities of *)
(* it, even if that began after the confirmation; nor from a dialog that was  *)
(* closed, or with other credentials than the user reviewed it with           *)
(* (account_link_flow.py:84-99, :319-332).                                    *)
LeavesUsed ==
    \A c \in Calls :
      Sends /\ At(c, "token") /\ At(c, "sent")'
        => /\ calls[c].kind = "unlink" => monitored = {} /\ entities = {}
           /\ identity[calls[c].flow] = session

UnlinkedWhenUnused == [][LeavesUsed]_vars

(* The account that is linked or unlinked has the address the user reviewed:  *)
(* it had it at some time after the confirmation                              *)
(* (account_links.py:124-144).                                                *)
WritesAreReviewed ==
    \A c \in Calls : At(c, "sent") => calls[c].seen \in calls[c].since

ConfirmedOnce == TypeOK /\ OneWritePerConfirmation /\ WritesAreReviewed
================================================================================
