------------------------------- MODULE MCNotices -------------------------------
(* Reminders, meter notices and documents share nothing: each behaviour runs  *)
(* one of them, and the others stay as they are.                              *)
EXTENDS Documents

CONSTANTS MaxPeriod, MaxChanges, MaxYear, MaxReminderStops, None

VARIABLES
    subject,
    clock, enabled, rlife, record, rfile, rshown, rvisible, rtask, acks, rorphan, unsaved, rstops,
    profile, year, options, mlife, row, mfile, mshown, mvisible, dismissals, saving,
    mtask, morphan, late, mstops

rvars == <<clock, enabled, rlife, record, rfile, rshown, rvisible, rtask, acks, rorphan,
           unsaved, rstops>>
mvars == <<profile, year, options, mlife, row, mfile, mshown, mvisible, dismissals,
           saving, mtask, morphan, late, mstops>>
allvars == <<subject, rvars, mvars, vars>>

R == INSTANCE Reminders
     WITH NoRecord <- None, NoTask <- None, NoNotice <- None,
          MaxStops <- MaxReminderStops,
          life <- rlife, file <- rfile, shown <- rshown, visible <- rvisible, task <- rtask,
          orphan <- rorphan, stops <- rstops

M == INSTANCE MeterNotices
     WITH NoRow <- None, NoEvent <- None, NoTask <- None,
          life <- mlife, file <- mfile, shown <- mshown, visible <- mvisible, task <- mtask,
          orphan <- morphan, stops <- mstops

ASSUME NoticesAssumption == R!ReminderConstants /\ M!NoticeConstants /\ ConstantsDiffer

MCInit == subject \in {"reminders", "meters", "documents"} /\ R!Init /\ M!Init /\ Init

Reminding(A) == subject = "reminders" /\ A /\ UNCHANGED <<subject, mvars, vars>>
Noticing(A) == subject = "meters" /\ A /\ UNCHANGED <<subject, rvars, vars>>
Looking(A) == subject = "documents" /\ A /\ UNCHANGED <<subject, rvars, mvars>>

MCNext == Reminding(R!Next) \/ Noticing(M!Next) \/ Looking(Next)

OneOf(r, m, d) == Reminding(r) \/ Noticing(m) \/ Looking(d)

(* The fairness of the module that runs: steps that are never possible at the *)
(* same time share a condition.                                               *)
MCFairness ==
    /\ WF_allvars(OneOf(R!Start \/ R!CloseEnds, M!Start \/ M!CloseEnds, Start \/ CloseEnds))
    /\ WF_allvars(OneOf(R!OrphanLands, M!OrphanLands, OrphanLands))
    /\ WF_allvars(OneOf(R!MessageBuilt \/ R!AckSaved, M!DismissalSaved, FALSE))
    /\ SF_allvars(OneOf(R!Tick, M!Tick(TRUE), Get))
    /\ SF_allvars(OneOf(R!Saved, M!Saved, SavedBefore))
    /\ SF_allvars(OneOf(R!Acknowledge, M!SaveDismissal, Listed))
    /\ SF_allvars(OneOf(FALSE, FALSE, SavedAfter))

MCSpec == MCInit /\ [][MCNext]_allvars /\ MCFairness

(* The properties of Documents are its own.  Those of the other modules are   *)
(* stated and explained there, by what they say.                              *)

(* Reminders and meters: what was dismissed stays so, also through a reload.  *)
DismissalsStay ==
    [][/\ subject = "reminders" => R!TypeOK /\ R!KeepsDismissal /\ R!HandsOver
       /\ subject = "meters" => M!TypeOK /\ M!KeepsDismissed]_allvars

(* Reminders: one appears in its window, and is withdrawn after it.           *)
RemindersFollow == R!ReminderAppears /\ R!ReminderEnds

(* Meters: a replacement is announced.                                        *)
ReplacementAnnounced == M!ReplacementAnnounced
================================================================================
