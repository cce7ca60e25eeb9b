----------------------------- MODULE ReadingRules -----------------------------
(* The pure rules of account_submission.py and of the reply handling in       *)
(* account_client.py: which readings may be sent for a meter, and what a      *)
(* reply of the cabinet to the one POST is taken to mean.  A meter has the    *)
(* zones 0..Count-1; the cabinet answers a POST with a list of entries, one   *)
(* per zone if all goes well, that name the zone by its index.                *)
EXTENDS Integers, Sequences, FiniteSets

CONSTANTS
    Count,      \* number of zones of the meter: 1 or 2 in SUBMISSION_SCHEMES
    Register    \* 10^digits: the first number the register cannot show

ASSUME CountAssumption == Count \in Nat \ {0}
ASSUME RegisterAssumption == Register \in Nat

Zones == 0..(Count - 1)

(* Entry statuses: "OTHER" stands for whatever is neither of the two words    *)
(* the code knows.                                                            *)
EntryStatuses == {"SUCCESS", "ERROR", "OTHER"}

(* An index of Count or -1 is one that names no zone.                         *)
Entries == [index : -1..Count, status : EntryStatuses]

(* validate_values: every zone of the context and no other, each value within *)
(* the register and not below the previous reading.                           *)
Admissible(context, readings) ==
    /\ DOMAIN readings = Zones
    /\ \A z \in Zones : context.previous[z] <= readings[z] /\ readings[z] < Register

(* What identifies a submission for the already-sent guard.                   *)
Signature(context, readings) == [day |-> context.day, readings |-> readings]

WellFormedRepeats(payload) ==                                      \* mutated
    /\ Len(payload) = Count
    /\ \A i \in DOMAIN payload :
          /\ payload[i].index \in Zones
          /\ payload[i].status \in {"SUCCESS", "ERROR"}

(* The reply has exactly one well-formed entry for every zone.                *)
WellFormed(payload) ==
    /\ Len(payload) = Count
    /\ \A i \in DOMAIN payload :
          /\ payload[i].index \in Zones
          /\ payload[i].status \in {"SUCCESS", "ERROR"}
    /\ \A i, j \in DOMAIN payload : payload[i].index = payload[j].index => i = j

(* submission_result                                                          *)
SubmissionResult(payload) ==
    LET statuses == {payload[i].status : i \in DOMAIN payload}
    IN  IF ~WellFormed(payload) THEN "unknown"
        ELSE IF statuses = {"SUCCESS"} THEN "accepted"
        ELSE IF statuses = {"ERROR"} THEN "rejected"
        ELSE "partial"

(* submit_readings: an entry that asks for a photo withdraws an acceptance.   *)
Verdict(payload, photoAsked) ==
    IF photoAsked /\ SubmissionResult(payload) = "accepted"
    THEN "unknown"
    ELSE SubmissionResult(payload)

-------------------------------------------------------------------------------
(* The outside world: what the cabinet did with each zone, and the replies    *)
(* that do not lie about it.  Entries may be missing, repeated, out of range  *)
(* or of an unknown status; an entry that says SUCCESS or ERROR of a zone     *)
(* tells the truth of that zone.                                              *)
Outcomes == [Zones -> {"SUCCESS", "ERROR"}]

Honest(payload, outcome) ==
    \A i \in DOMAIN payload :
       payload[i].index \in Zones /\ payload[i].status # "OTHER"
          => payload[i].status = outcome[payload[i].index]

Payloads == UNION {[1..n -> Entries] : n \in 0..(Count + 1)}

(* What the program may conclude from an honest reply to a POST.              *)
Conclusions ==
    [outcome \in Outcomes |->
        {Verdict(payload, asked) :
            payload \in {p \in Payloads : Honest(p, outcome)}, asked \in BOOLEAN}]
===============================================================================
