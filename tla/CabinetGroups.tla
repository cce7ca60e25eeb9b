------------------------------ MODULE CabinetGroups ------------------------------
(* The outage groups the old cabinet reports for each account                 *)
(* (account_groups.py), read with tokens of its own                           *)
(* (account_group_client.py): a refresh in the background, after every change *)
(* of the account coordinator's data and every 15 minutes.                    *)
EXTENDS Integers

CONSTANTS
    Number,         \* how many accounts are selected
    MaxPolls,       \* bound: updates of the account coordinator
    MaxFaults,      \* bound: failures, and tokens the cabinet revokes
    MaxStops,       \* bound: reloads of the entry
    NoResult, NoTask

Accounts == 1..Number
Missing == 0            \* coordinator.data holds None for the account
Results == [status : {"current", "unavailable", "api_changed"},
            of : 1..MaxPolls, fresh : BOOLEAN]

Steps == {"created", "login", "object", "groups"}

(* A refresh, with the account it asks about and what it has met so far.      *)
Tasks == [number : 0..Number, snapshot : 0..MaxPolls, attempt : {1, 2}, step : Steps,
          allOk : BOOLEAN, attempted : BOOLEAN, limited : BOOLEAN, broken : BOOLEAN]

(* What the theorems assume of the constants.                                 *)
GroupConstants ==
    /\ {Number, MaxPolls, MaxFaults, MaxStops} \subseteq Nat
    /\ NoResult \notin Results /\ NoTask \notin Tasks

VARIABLES
    snapshot,   \* the identity of coordinator.data[number]
    ok,         \* coordinator.last_update_success
    results,    \* self.results
    told,       \* what get() returned when the listeners were last called
    again,      \* self._refresh_again
    task,       \* self._task: the account that is asked, and how far
    tokens,     \* AccountGroupClient._tokens
    issue,      \* the repair about a changed interface
    polls, faults, stops

world == <<snapshot, ok, polls>>
vars == <<world, results, told, again, task, tokens, issue, faults, stops>>

Available(n) == ok /\ snapshot[n] # Missing

(* get()                                                                      *)
Get(n) ==
    IF ~Available(n) THEN "unavailable"
    ELSE IF results[n] = NoResult THEN "pending"
    ELSE IF results[n].status = "current" /\ ~results[n].fresh THEN "expired"
    ELSE results[n].status

Notify == told' = [n \in Accounts |-> Get(n)']

Init ==
    /\ snapshot = [n \in Accounts |-> Missing] /\ ok = FALSE
    /\ results = [n \in Accounts |-> NoResult]
    /\ told = [n \in Accounts |-> "unavailable"]
    /\ again = FALSE /\ task = NoTask
    /\ tokens = [n \in Accounts |-> "none"]
    /\ issue = FALSE /\ polls = 0 /\ faults = 0 /\ stops = 0

Fault == faults < MaxFaults /\ faults' = faults + 1

-------------------------------------------------------------------------------
(* refresh(): one account after the other; what is not available, or comes    *)
(* after a refusal for too many requests, has no result                       *)

Ready(from, limited) == {n \in from..Number : Available(n) /\ ~limited}

Asked(t, n) ==
    [t EXCEPT !.number = n, !.snapshot = snapshot[n], !.attempt = 1,
              !.step = IF tokens[n] = "none" THEN "login" ELSE "object"]

Finish(t, found) ==
    /\ issue' = CASE t.broken                   -> TRUE
                  [] t.attempted /\ t.allOk     -> FALSE
                  [] OTHER                      -> issue
    /\ results' = found

Fresh == [number |-> 0, snapshot |-> Missing, attempt |-> 1, step |-> "created",
          allOk |-> TRUE, attempted |-> FALSE, limited |-> FALSE, broken |-> FALSE]

Without(found, skipped) == [n \in Accounts |-> IF n \in skipped THEN NoResult ELSE found[n]]

(* Proceed to the next account from the given one, with these results so far. *)
Proceed(t, from, found) ==
    \/ \E n \in Ready(from, t.limited) :
        /\ \A m \in Ready(from, t.limited) : n <= m
        /\ task' = Asked([t EXCEPT !.attempted = TRUE], n)
        /\ results' = Without(found, from..(n - 1))
        /\ UNCHANGED <<issue, again>>
    \/ /\ Ready(from, t.limited) = {}
       /\ Finish(t, Without(found, from..Number))
       /\ task' = IF again THEN Fresh ELSE NoTask
       /\ again' = FALSE

(* _tick(), which does nothing while a refresh runs                           *)
Tick ==
    /\ task = NoTask /\ task' = Fresh /\ again' = FALSE
    /\ UNCHANGED <<world, results, told, tokens, issue, faults, stops>>

Begin ==
    /\ task # NoTask /\ task.step = "created"
    /\ Proceed(task, 1, results)
    /\ UNCHANGED <<world, tokens, faults, stops>>
    /\ Notify

-------------------------------------------------------------------------------
(* _updated(): the coordinator has new data, or its success has changed       *)

UpdatedWhenIdle(changed) ==                                         \* mutated
    IF changed /\ task = NoTask THEN task' = Fresh /\ UNCHANGED again ELSE UNCHANGED <<task, again>>

Updated(changed) ==
    \/ ~changed /\ UNCHANGED <<task, again>>
    \/ changed /\ task = NoTask /\ task' = Fresh /\ again' = FALSE
    \/ changed /\ task # NoTask /\ again' = TRUE /\ UNCHANGED task

Poll ==
    /\ polls < MaxPolls /\ polls' = polls + 1
    /\ \/ /\ ok' = TRUE
          /\ snapshot' \in [Accounts -> {Missing, polls'}]
          /\ \E n \in Accounts : snapshot'[n] # Missing
          /\ Updated(TRUE)
       \/ ok' = FALSE /\ UNCHANGED snapshot /\ Updated(ok)
    /\ UNCHANGED <<results, tokens, issue, faults, stops>>
    /\ Notify

(* The expiry timer of a result                                               *)
ExpireQuietly(n) ==                                                 \* mutated
    /\ results[n] # NoResult /\ results[n].status = "current" /\ results[n].fresh
    /\ results' = [results EXCEPT ![n].fresh = FALSE]
    /\ UNCHANGED <<world, told, again, task, tokens, issue, faults, stops>>

Expire(n) ==
    /\ results[n] # NoResult /\ results[n].status = "current" /\ results[n].fresh
    /\ results' = [results EXCEPT ![n].fresh = FALSE]
    /\ UNCHANGED <<world, again, task, tokens, issue, faults, stops>>
    /\ Notify

(* close() and start() of the next instance; the first refresh of its         *)
(* coordinator is left to Poll                                                *)
Reload ==
    /\ stops < MaxStops /\ stops' = stops + 1
    /\ results' = [n \in Accounts |-> NoResult] /\ tokens' = [n \in Accounts |-> "none"]
    /\ task' = Fresh /\ again' = FALSE
    /\ UNCHANGED <<world, issue, faults>>
    /\ Notify

-------------------------------------------------------------------------------
(* read_groups(): log in once without a token, ask for the object, then for   *)
(* its groups; an expired session is renewed once                             *)

Asking == task # NoTask /\ task.step \in {"login", "object", "groups"}

At(step) == task # NoTask /\ task.step = step

LoggedIn ==
    /\ At("login")
    /\ tokens' = [tokens EXCEPT ![task.number] = "good"]
    /\ task' = [task EXCEPT !.step = "object"]
    /\ UNCHANGED <<world, results, told, again, issue, faults, stops>>

ObjectRead ==
    /\ At("object") /\ tokens[task.number] = "good"
    /\ task' = [task EXCEPT !.step = "groups"]
    /\ UNCHANGED <<world, results, told, again, tokens, issue, faults, stops>>

Revoke ==
    /\ Fault
    /\ \E n \in Accounts :
        /\ tokens[n] = "good"
        /\ tokens' = [tokens EXCEPT ![n] = "revoked"]
    /\ UNCHANGED <<world, results, told, again, task, issue, stops>>

(* A late result of other data, or of an account that is gone, is dropped.    *)
Answered(status, t) ==
    /\ UNCHANGED world
    /\ Proceed(t, task.number + 1,
               [results EXCEPT ![task.number] =
                    IF Available(task.number) /\ snapshot[task.number] = task.snapshot
                    THEN [status |-> status, of |-> task.snapshot, fresh |-> TRUE]
                    ELSE NoResult])
    /\ Notify

GroupsRead ==
    /\ At("groups") /\ tokens[task.number] = "good"
    /\ Answered("current", task)
    /\ UNCHANGED <<tokens, faults, stops>>

Forget == tokens' = [tokens EXCEPT ![task.number] = "none"]

(* The session is refused: HTTP 401 is tried once more from the login.        *)
Refused ==
    /\ Asking
    /\ IF At("login") THEN Fault ELSE tokens[task.number] = "revoked" /\ UNCHANGED faults
    /\ Forget
    /\ IF task.attempt = 1
       THEN /\ task' = [task EXCEPT !.attempt = 2, !.step = "login"]
            /\ UNCHANGED <<world, results, told, again, issue>>
       ELSE Answered("unavailable", [task EXCEPT !.allOk = FALSE])
    /\ UNCHANGED stops

RefusedInBodyKeepsToken ==                                          \* mutated
    /\ Asking /\ ~At("login") /\ tokens[task.number] = "revoked"
    /\ Answered("unavailable", [task EXCEPT !.allOk = FALSE])
    /\ UNCHANGED <<tokens, faults, stops>>

(* Some routes report an expired session in a failing body, which is not told *)
(* from other failures.                                                       *)
RefusedInBody ==
    /\ Asking /\ ~At("login") /\ tokens[task.number] = "revoked"
    /\ Forget
    /\ Answered("unavailable", [task EXCEPT !.allOk = FALSE])
    /\ UNCHANGED <<faults, stops>>

(* The service fails, limits the requests, or has changed.                    *)
ReadFails ==
    /\ Asking /\ Fault
    /\ Forget
    /\ \/ Answered("unavailable", [task EXCEPT !.allOk = FALSE])
       \/ Answered("unavailable", [task EXCEPT !.allOk = FALSE, !.limited = TRUE])
       \/ Answered("api_changed", [task EXCEPT !.allOk = FALSE, !.broken = TRUE])
    /\ UNCHANGED stops

(* After 45 seconds, or a connection error of the modern cabinet: the token   *)
(* is kept.                                                                   *)
TimedOut ==
    /\ Asking /\ Fault
    /\ Answered("unavailable", [task EXCEPT !.allOk = FALSE])
    /\ UNCHANGED <<tokens, stops>>

Next ==
    \/ Tick \/ Begin \/ Poll \/ Reload \/ \E n \in Accounts : Expire(n)
    \/ LoggedIn \/ ObjectRead \/ GroupsRead
    \/ Revoke \/ Refused \/ RefusedInBody \/ ReadFails \/ TimedOut

Spec == Init /\ [][Next]_vars

(* The timer goes on, and the service answers in the end.                     *)
Fairness ==
    /\ WF_vars(Tick \/ Begin)
    /\ WF_vars(LoggedIn \/ ObjectRead \/ GroupsRead)
    /\ WF_vars(RefusedInBody)

FairSpec == Spec /\ Fairness

-------------------------------------------------------------------------------
(* A request uses a token of its account, and a result belongs to a snapshot  *)
(* the coordinator has had (account_groups.py:163, account_group_client.py:196). *)
TypeOK ==
    /\ snapshot \in [Accounts -> 0..polls] /\ ok \in BOOLEAN
    /\ results \in [Accounts -> Results \cup {NoResult}]
    /\ tokens \in [Accounts -> {"none", "good", "revoked"}]
    /\ again \in BOOLEAN /\ issue \in BOOLEAN
    /\ polls \in 0..MaxPolls /\ faults \in 0..MaxFaults /\ stops \in 0..MaxStops
    /\ Asking /\ ~At("login") => tokens[task.number] # "none"

(* No result outlives the data it was read for: whatever happens during a     *)
(* refresh, when none runs every result is about the account as the           *)
(* coordinator has it now (account_groups.py:81-94, :163-166).               *)
IdleIsCurrent ==
    task = NoTask =>
        \A n \in Accounts : results[n] # NoResult => Available(n) /\ results[n].of = snapshot[n]

(* Sensors and the group follower are told of every change of get(), its      *)
(* expiry included (account_groups.py:103-117, :167, :174).                   *)
ListenersAreTold == told = [n \in Accounts |-> Get(n)]

(* Whatever failed, and however the service reported an expired session, the  *)
(* groups of an available account are read again, and the repair withdrawn    *)
(* (account_group_client.py:215-224, account_groups.py:172-173).              *)
GroupsRecover ==
    /\ \A n \in Accounts : []<>(Available(n) => Get(n) = "current")
    /\ []<>((\E n \in Accounts : Available(n)) => ~issue)
================================================================================
