---------------------------- MODULE DeliveryBarrier ----------------------------
(* What the submission of readings promises, without saying how: a request    *)
(* to the billing system is sent at most once, and a new one for the same     *)
(* account only after the previous one has been settled - by a definite       *)
(* answer for every zone, or by a user who looked into the cabinet.           *)
CONSTANTS Accounts, Attempts

VARIABLES
    outstanding,    \* attempts sent and not settled, by account
    sent            \* attempts ever sent

Init ==
    /\ outstanding = [n \in Accounts |-> {}]
    /\ sent = {}

Send(number, attempt) ==
    /\ outstanding[number] = {}
    /\ attempt \notin sent
    /\ outstanding' = [outstanding EXCEPT ![number] = {attempt}]
    /\ sent' = sent \cup {attempt}

Settle(number, attempt) ==
    /\ attempt \in outstanding[number]
    /\ outstanding' = [outstanding EXCEPT ![number] = @ \ {attempt}]
    /\ UNCHANGED sent

Next == \E number \in Accounts, attempt \in Attempts :
            Send(number, attempt) \/ Settle(number, attempt)

Spec == Init /\ [][Next]_<<outstanding, sent>>
===============================================================================
