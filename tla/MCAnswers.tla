------------------------------- MODULE MCAnswers -------------------------------
(* What is concluded from the answers of servers: submissions whose replies   *)
(* may be unclear, and the address refreshed from the website.  They share no *)
(* state: each behaviour runs one of them, and the other stays as it is.      *)
EXTENDS MCSubmissions

CONSTANTS
    Groups, Refreshes, Schedules, Horizon, Straddles, NoSchedule, NoReading, NoGroups, NoTick

VARIABLES
    subject,
    clock, polls, change, addressOk, groups, schedule, ready, tick,
    loaded, baseline, baselineFile, known, knownFile, lastOk, overlapped

avars == <<clock, polls, change, addressOk, groups, schedule, ready, tick,
           loaded, baseline, baselineFile, known, knownFile, lastOk, overlapped>>
allvars == <<subject, vars, avars>>

A == INSTANCE AddressCoordinator WITH phase <- polls

ASSUME AddressAssumption == A!AddressConstants

-------------------------------------------------------------------------------
(* A schedule is given by what it says of each unit of time, as unit ranges   *)
(* that the code has to merge, or with its outages already merged, as the     *)
(* website's rows are.                                                        *)
Units == 0..(Horizon - 1)

Build(says) ==
    [coverage  |-> {[group |-> p[1], range |-> <<p[2], p[2] + 1>>] :
                       p \in {q \in Groups \X Units : says[q] # "unverified"}},
     intervals |-> {[group |-> p[1], kind |-> says[p], range |-> <<p[2], p[2] + 1>>] :
                       p \in {q \in Groups \X Units : says[q] \in A!Kinds}}]

Joined(built) ==
    [built EXCEPT !.intervals =
        UNION {{[group |-> g, kind |-> k, range |-> r] :
                   r \in A!Ranges(A!Outages(built, g, k), 0)} : g \in Groups, k \in A!Kinds}]

(* Days with an outage or unpublished, the outages also merged; days without  *)
(* one, and with a possible one, published alone, the first or the second.    *)
Single(unit, value) ==
    Build([q \in Groups \X Units |-> IF q[2] = unit THEN value ELSE "unverified"])

MCSchedules ==
    LET outages == {Build(says) : says \in [Groups \X Units -> {"unverified", "outage"}]}
    IN  outages \cup {Joined(b) : b \in outages}
            \cup {Single(u, v) : u \in {0, 1}, v \in {"clear", "possible"}}

-------------------------------------------------------------------------------
Submitting == subject = "submission"
Refreshing == subject \in {"address", "overlap"}

(* One refresh of the address at a time, any of them.                         *)
Apart == \A r, s \in Refreshes : polls[r] # "idle" /\ polls[s] # "idle" => r = s

(* Refreshes that overlap need no more schedules to tell apart than one that  *)
(* ends earlier and one that ends later.                                      *)
Few == {NoReading} \cup (Schedules \cap {Single(u, "outage") : u \in {0, 1}})

MCInit ==
    /\ subject \in {"submission", "address", "overlap"}
    /\ Init /\ A!Init

MCNext ==
    \/ Submitting /\ Next /\ UNCHANGED <<subject, avars>>
    \/ subject = "address" /\ A!Next /\ Apart' /\ UNCHANGED <<subject, vars>>
    \/ subject = "overlap" /\ schedule' \in Few /\ A!Next /\ UNCHANGED <<subject, vars>>

(* No action tells one refresh from another.                                  *)
Interchangeable == Permutations(Refreshes)

MCSpec == MCInit /\ [][MCNext]_allvars

(* The properties of Submissions are its own; those of the address are stated *)
(* and explained in its module.                                               *)

(* The address: what entities show is verified, and ends when it has to, also *)
(* while refreshes overlap and after they did.                                *)
ShownIsVerified == Refreshing => A!TypeOK /\ A!ReadyIsVerified /\ A!ClockCovers

(* The address, one refresh at a time: exactly the news are reported.         *)
ReportsAreNews == subject = "address" => A!ReportsAreNews
================================================================================
