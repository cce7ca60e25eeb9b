-------------------------------- MODULE MCGroups --------------------------------
(* What an account takes from elsewhere: its link in the cabinet, its         *)
(* building, the cabinet's groups, the group in force, and the sensors of its *)
(* references.  Each behaviour runs one of them, and the others stay as they  *)
(* are.                                                                       *)
EXTENDS AccountLinks

CONSTANTS
    Cabinets, Forms, b1, b2, MaxEntries, MaxOutages,
    Number, MaxPolls, MaxRefusals,
    Groups, MaxMoves, MaxEdits, MaxStops, None,
    Zones, Devices, MaxMeter, MaxValue, MaxEpoch, MaxRefs, MaxQueue, MaxProposals

VARIABLES
    subject,
    entries, link, reload, states, finds, block, faults, edits,
    snapshot, ok, results, told, again, asked, tokens, issue, polls, gfaults, gstops,
    house, offered, moves, choice, saves, restart, records, file, needs, life,
    repeat, task, notice, known, stops,
    manager, listening, data, disk, pairs, queue, holder, target, nextRef, sending,
    source, meter, doubt, latched

bvars == <<entries, link, reload, states, finds, block, faults, edits>>
cvars == <<snapshot, ok, results, told, again, asked, tokens, issue, polls, gfaults, gstops>>
svars == <<house, offered, moves, choice, saves, restart, records, file, needs, life,
           repeat, task, notice, known, stops>>
evars == <<manager, listening, data, disk, pairs, queue, holder, target, nextRef, sending,
           source, meter, doubt, latched>>
allvars == <<subject, vars, bvars, cvars, svars, evars>>

B == INSTANCE Buildings
     WITH MaxFaults <- MaxOutages, NoLink <- None, Disabled <- Nobody, Free <- Nobody,
          calls <- finds, lock <- block

C == INSTANCE CabinetGroups
     WITH MaxFaults <- MaxRefusals, NoResult <- None, NoTask <- None,
          task <- asked, faults <- gfaults, stops <- gstops

S == INSTANCE ScheduleGroups
     WITH MaxChanges <- MaxMoves, NoLink <- None, NoRow <- None, NoNotice <- None, NoTask <- None,
          link <- choice, edits <- saves, reload <- restart, again <- repeat,
          cabinet <- offered, changes <- moves

E == INSTANCE EnergyReferences
     WITH MaxTokens <- MaxProposals, NoBinding <- None, NoToken <- None, NoOp <- None,
          tokens <- pairs

ASSUME GroupsAssumption ==
    /\ B!BuildingConstants /\ {b1, b2} \subseteq Cabinets
    /\ C!GroupConstants /\ S!FollowerConstants

ASSUME SensorsAssumption == E!ReferenceConstants

ASSUME LinksAssumption == {MaxConfirms, MaxChanges} \subseteq Nat /\ LinkConstants

MCInit ==
    /\ subject \in {"link", "building", "cabinet", "group", "sensors"}
    /\ Init /\ B!Init /\ C!Init /\ S!Init /\ E!Init
    /\ subject # "link" => linked      \* one initial state of the links is enough

Linking(A) == subject = "link" /\ A /\ UNCHANGED <<subject, bvars, cvars, svars, evars>>
Finding(A) == subject = "building" /\ A /\ UNCHANGED <<subject, vars, cvars, svars, evars>>
Reading(A) == subject = "cabinet" /\ A /\ UNCHANGED <<subject, vars, bvars, svars, evars>>
Following(A) == subject = "group" /\ A /\ UNCHANGED <<subject, vars, bvars, cvars, evars>>
Tracking(A) == subject = "sensors" /\ A /\ UNCHANGED <<subject, vars, bvars, cvars, svars>>

MCNext ==
    \/ Linking(Next) \/ Finding(B!Next) \/ Reading(C!Next) \/ Following(S!Next)
    \/ Tracking(E!Next)

OneOf(b, c, s) == Finding(b) \/ Reading(c) \/ Following(s)

(* The fairness of the module that runs; of the links, only safety is checked. *)
MCFairness ==
    /\ WF_allvars(OneOf(B!Discovers(b1), C!Tick \/ C!Begin, S!Start) \/ Tracking(E!Proceed))
    /\ WF_allvars(OneOf(B!Discovers(b2), C!RefusedInBody, S!Poll))
    /\ WF_allvars(OneOf(B!Reloads, C!LoggedIn \/ C!ObjectRead \/ C!GroupsRead, restart /\ S!Stop))
    /\ WF_allvars(OneOf(B!FormImports, FALSE, S!Reconcile \/ S!ReconcileAtOnce))
    /\ SF_allvars(OneOf(B!Lock(<<"task", b1>>), FALSE, S!Saved))
    /\ SF_allvars(OneOf(B!Lock(<<"task", b2>>), FALSE, FALSE))

MCSpec == MCInit /\ [][MCNext]_allvars /\ MCFairness

(* The properties of AccountLinks are its own.  Those of the other modules    *)
(* are stated and explained there, by what they say.                          *)
MCTypeOK == B!TypeOK /\ C!TypeOK /\ S!TypeOK

(* One entry of an address, results about the data they were read for, known  *)
(* to the listeners, and no group that changed without a notification.        *)
KnownIsCurrent ==
    /\ MCTypeOK
    /\ B!OneEntryPerAddress
    /\ C!IdleIsCurrent /\ C!ListenersAreTold
    /\ S!NoSilentChange

(* What a user chose stands, and what is notified is news.                    *)
ChoicesStand ==
    [][/\ subject = "building" => B!KeepsLink
       /\ subject = "group" => S!KeepsChoice /\ S!TellsNews]_allvars

(* Discovery, groups and followers get there.                                 *)
AccountsSettle == B!AccountsSettle
GroupsRecover == C!GroupsRecover
FollowsTheHouse == S!FollowsTheHouse

(* Sensors: a discontinuity is noticed though the lock is taken.              *)
ResetNoticed == E!ResetNoticed
=================================================================================
