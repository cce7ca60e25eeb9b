----------------------------- MODULE MCSubmissions -----------------------------
(* Instances of Submissions for TLC.                                          *)
EXTENDS Submissions, TLC

(* Accounts and users are interchangeable where none is singled out.         *)
Symmetry == Permutations(Accounts) \cup Permutations(Users)

(* One reading day; the previous reading of every zone is 0 or 1, the values  *)
(* that may be entered are 0 (refused once the previous reading is 1) and 1.  *)
MCContexts == {[day |-> 1, previous |-> [z \in Zones |-> p]] : p \in {0, 1}}
OneContext == {[day |-> 1, previous |-> [z \in Zones |-> 0]]}
MCReadings == {[z \in Zones |-> v] : v \in {0, 1}}
OneReading == {[z \in Zones |-> 1]}

(* The lock is given back and closing ends, as stated in Submissions.         *)
LocksAreFreed == LockFreed /\ CloseCompletes
===============================================================================
