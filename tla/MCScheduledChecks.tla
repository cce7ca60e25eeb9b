--------------------------- MODULE MCScheduledChecks ---------------------------
(* Instances of ScheduledChecks for TLC.                                      *)
EXTENDS ScheduledChecks

EveryDay == [n \in Accounts |-> 1..LastDay]
===============================================================================
