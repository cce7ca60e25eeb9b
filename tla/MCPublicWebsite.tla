---------------------------- MODULE MCPublicWebsite ----------------------------
(* The gate that all requests to a public website pass, and the client of one *)
(* address behind it.  They share no state here: each behaviour runs one of   *)
(* them, and the other stays as it is.                                        *)
EXTENDS PublicRequests, TLC

CONSTANTS Refreshes, MaxVersion, MaxMalformed, NoOp

VARIABLES
    subject,
    site, http, token, cached, op, refresh, reading, candidate, raw, verdict,
    overtaken, closed, malformed

wvars == <<site, http, token, cached, op, refresh, reading, candidate, raw,
           verdict, overtaken, closed, malformed>>
allvars == <<subject, vars, wvars>>

(* A unit of time is one minute in the pauses; the spacing is exaggerated to  *)
(* one such unit.                                                             *)
MCPauses == <<1, 2, 4, 8, 10>>
MCHints == {-1, 0, 5, 20}

W == INSTANCE PublicWebsite WITH stage <- refresh

ASSUME GateAssumption == GateConstants

ASSUME WebsiteAssumption == MaxVersion \in Nat \ {0} /\ MaxMalformed \in Nat

Asking(A)   == subject = "gate" /\ A /\ UNCHANGED <<subject, wvars>>
Browsing(A) == subject = "website" /\ A /\ UNCHANGED <<subject, vars>>

MCInit == subject \in {"gate", "website"} /\ Init /\ W!Init

(* A client that was closed, with nothing under way, may rest.                *)
Rests == Browsing(closed /\ UNCHANGED wvars)

MCNext == Asking(Next) \/ Browsing(W!Next) \/ Rests

(* The website's fairness; of the gate, only safety is checked.               *)
MCSpec == MCInit /\ [][MCNext]_allvars /\ WF_allvars(Browsing(W!Requests))

(* The properties of the gate are its own; those of the client are stated and *)
(* explained in its module.                                                   *)

(* The client: requests are few, and a token goes with its cookies.           *)
RequestsAreSound == W!RequestsAreSound

(* The client: what is called verified is what the website publishes.         *)
VerifiedIsCurrent == W!VerifiedIsCurrent

(* The client: an operation ends.                                             *)
OperationsEnd == W!OperationsEnd
================================================================================
