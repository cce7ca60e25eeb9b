-------------------------------- MODULE Buildings --------------------------------
(* The public building of a linked account (account_buildings.py): the        *)
(* background discovery and the options form (account_building_flow.py) of    *)
(* several cabinets find or create the entry of the same house, under one     *)
(* lock, while users add and remove buildings and choose links.               *)
EXTENDS Integers, FiniteSets

CONSTANTS
    Cabinets,       \* one account each, all in the same house
    Forms,          \* the cabinets whose options forms are used
    MaxEntries,     \* bound: entries of the house ever added
    MaxFaults,      \* bound: outages of the directory, aborted dialogs, reloads
    MaxEdits,       \* bound: links chosen in the forms
    NoLink,         \* the account has no link in the options
    Disabled,       \* the user disconnected it
    Free            \* nobody holds the lock

Ids == 1..MaxEntries
Actors == ({"task"} \X Cabinets) \cup ({"form"} \X Forms)
NoBuilding == 0         \* ensure_building found none

Call == [step : {"idle", "find", "wait", "import", "others", "groups"},
         old : Ids \cup {NoLink, Disabled}, found : Ids \cup {NoBuilding}]
Idle == [step |-> "idle", old |-> NoLink, found |-> NoBuilding]

(* What the theorems assume of the constants.                                 *)
BuildingConstants ==
    /\ {MaxEntries, MaxFaults, MaxEdits} \subseteq Nat /\ Forms \subseteq Cabinets
    /\ Free \notin Actors

VARIABLES
    entries,    \* the entries of the house: "unused", "public", "alias" or "removed"
    link,       \* the account's link in the options
    reload,     \* the entry is reloaded because its options changed
    states,     \* AccountBuildingLinks.states
    calls,      \* what the discovery and the form of a cabinet are doing
    lock,       \* hass.data["dtek_building_creation_lock"]
    faults, edits

vars == <<entries, link, reload, states, calls, lock, faults, edits>>

Init ==
    /\ entries = [i \in Ids |-> "unused"]
    /\ link = [c \in Cabinets |-> NoLink] /\ reload = [c \in Cabinets |-> FALSE]
    /\ states = [c \in Cabinets |-> "none"]
    /\ calls = [a \in Actors |-> Idle]
    /\ lock = Free /\ faults = 0 /\ edits = 0

Fault == faults < MaxFaults /\ faults' = faults + 1

(* matching_entries(): other spellings of the address count too.              *)
Matching == {i \in Ids : entries[i] \in {"public", "alias"}}
Public == {i \in Ids : entries[i] = "public"}
Unused == {i \in Ids : entries[i] = "unused"}

IsNext(i) == i \in Unused /\ \A j \in Unused : i <= j

TheOnly(ids) == CHOOSE i \in ids : ids = {i}

Step(a, step) == calls' = [calls EXCEPT ![a].step = step]

Ends(a) == calls' = [calls EXCEPT ![a] = Idle]

Active(a) == link[a[2]] = IF a[1] = "task" THEN NoLink ELSE calls[a].old

-------------------------------------------------------------------------------
(* What users do with the buildings themselves.  Setting one up refuses an    *)
(* address that is configured, by its exact spelling.                         *)

AddByHand ==
    /\ \E i \in Ids, spelling \in {"public", "alias"} :
        /\ IsNext(i)
        /\ \A j \in Ids : entries[j] # spelling
        /\ entries' = [entries EXCEPT ![i] = spelling]
    /\ UNCHANGED <<link, reload, states, calls, lock, faults, edits>>

Remove ==
    /\ Fault
    /\ \E i \in Matching : entries' = [entries EXCEPT ![i] = "removed"]
    /\ UNCHANGED <<link, reload, states, calls, lock, edits>>

SetLink(c, choice) ==
    /\ link' = [link EXCEPT ![c] = choice]
    /\ reload' = [reload EXCEPT ![c] = link[c] # choice \/ reload[c]]

(* schedule_address() and save(): disconnect, or choose a known building.     *)
ChooseLink(c) ==
    /\ edits < MaxEdits /\ edits' = edits + 1
    /\ \E choice \in {Disabled} \cup Matching : SetLink(c, choice)
    /\ UNCHANGED <<entries, states, calls, lock, faults>>

(* close() cancels the discovery, start() begins with a tick.                 *)
Released(a) == IF lock = a THEN Free ELSE lock

Reload(c) ==
    /\ IF reload[c] THEN UNCHANGED faults ELSE Fault
    /\ reload' = [reload EXCEPT ![c] = FALSE]
    /\ states' = [states EXCEPT ![c] = "none"]
    /\ Ends(<<"task", c>>) /\ lock' = Released(<<"task", c>>)
    /\ UNCHANGED <<entries, link, edits>>

-------------------------------------------------------------------------------
(* reconcile(), every five minutes                                            *)

Tick(c) ==
    LET a == <<"task", c>>
    IN  /\ calls[a] = Idle /\ Active(a) /\ states[c] # "confirmation"
        /\ states' = [states EXCEPT ![c] = "pending"]
        /\ Step(a, "find")
        /\ UNCHANGED <<entries, link, reload, lock, faults, edits>>

WriteAnyway(c) ==                                                   \* mutated
    LET a == <<"task", c>>
    IN  /\ calls[a].step = "others"
        /\ SetLink(c, calls[a].found)
        /\ Ends(a)
        /\ UNCHANGED <<entries, states, lock, faults, edits>>

(* The other accounts have been looked up, and the links are written.         *)
Write(c) ==
    LET a == <<"task", c>>
    IN  /\ calls[a].step = "others"
        /\ IF Active(a) THEN SetLink(c, calls[a].found) ELSE UNCHANGED <<link, reload>>
        /\ Ends(a)
        /\ UNCHANGED <<entries, states, lock, faults, edits>>

-------------------------------------------------------------------------------
(* The options form, from begin() on                                          *)

OpenForm(c) ==
    LET a == <<"form", c>>
    IN  /\ calls[a] = Idle /\ edits < MaxEdits /\ edits' = edits + 1
        /\ calls' = [calls EXCEPT ![a].step = "find", ![a].old = link[c]]
        /\ UNCHANGED <<entries, link, reload, states, lock, faults>>

CloseForm(c) ==
    LET a == <<"form", c>>
    IN  /\ calls[a].step \in {"find", "groups"}
        /\ Ends(a)
        /\ UNCHANGED <<entries, link, reload, states, lock, faults, edits>>

SubmitGroups(c) ==
    LET a == <<"form", c>>
    IN  /\ calls[a].step = "groups" /\ calls[a].found \in Matching
        /\ SetLink(c, calls[a].found)
        /\ Ends(a)
        /\ UNCHANGED <<entries, states, lock, faults, edits>>

-------------------------------------------------------------------------------
(* Both look the address up in the directory and then ensure_building().      *)

Found(a) ==
    /\ calls[a].step = "find"
    /\ IF Active(a) \/ a[1] = "task" THEN Step(a, "wait") ELSE Ends(a)
    /\ UNCHANGED <<entries, link, reload, states, lock, faults, edits>>

State(a, state) == IF a[1] = "task" THEN [states EXCEPT ![a[2]] = state] ELSE states

(* The address is not unique in the directory.                                *)
NotFound(a) ==
    /\ calls[a].step = "find" /\ Fault
    /\ states' = State(a, "confirmation")
    /\ IF a[1] = "task" THEN Ends(a) ELSE UNCHANGED calls
    /\ UNCHANGED <<entries, link, reload, lock, edits>>

FailsLocked(a) ==                                                   \* mutated
    /\ states' = State(a, "unavailable")
    /\ IF a[1] = "task" THEN Ends(a) ELSE Step(a, "find")
    /\ UNCHANGED <<lock, link, reload>>

(* The form shows the error; the discovery tries again later.                 *)
Fails(a) ==
    /\ states' = State(a, "unavailable")
    /\ IF a[1] = "task" THEN Ends(a) ELSE Step(a, "find")
    /\ lock' = Released(a)
    /\ UNCHANGED <<link, reload>>

LookupFails(a) ==
    /\ calls[a].step = "find" /\ Fault
    /\ Fails(a)
    /\ UNCHANGED <<entries, edits>>

(* The context is checked again once the building is known.  A form may save  *)
(* a first link at once, and asks for the groups otherwise.                   *)
Returns(a, building) ==
    /\ lock' = Released(a)
    /\ CASE ~Active(a) ->
              Ends(a) /\ UNCHANGED <<link, reload, states>>
         [] Active(a) /\ building = NoBuilding ->
              /\ states' = State(a, "confirmation")
              /\ IF a[1] = "task" THEN Ends(a) ELSE Step(a, "find")
              /\ UNCHANGED <<link, reload>>
         [] Active(a) /\ building # NoBuilding /\ a[1] = "task" ->
              /\ calls' = [calls EXCEPT ![a].step = "others", ![a].found = building]
              /\ UNCHANGED <<link, reload, states>>
         [] OTHER ->
              /\ \/ link[a[2]] = NoLink /\ SetLink(a[2], building) /\ Ends(a)
                 \/ /\ calls' = [calls EXCEPT ![a].step = "groups", ![a].found = building]
                    /\ UNCHANGED <<link, reload>>
              /\ UNCHANGED states

Lock(a) ==
    /\ calls[a].step = "wait" /\ lock = Free
    /\ IF ~Active(a) \/ Cardinality(Matching) > 1 THEN Returns(a, NoBuilding)
       ELSE IF Matching # {} THEN Returns(a, TheOnly(Matching))
       ELSE lock' = a /\ Step(a, "import") /\ UNCHANGED <<link, reload, states>>
    /\ UNCHANGED <<entries, faults, edits>>

Importing(a) == calls[a].step = "import"

ImportUnchecked(a) ==                                               \* mutated
    /\ Importing(a)
    /\ \E i \in Ids :
        /\ IsNext(i) /\ entries' = [entries EXCEPT ![i] = "public"]
        /\ Returns(a, i)
    /\ UNCHANGED <<faults, edits>>

(* async_step_import(), for an address nobody configured meanwhile.           *)
Import(a) ==
    /\ Importing(a) /\ Public = {}
    /\ \E i \in Ids :
        /\ IsNext(i) /\ entries' = [entries EXCEPT ![i] = "public"]
        /\ Returns(a, i)
    /\ UNCHANGED <<faults, edits>>

(* It is configured by now, or cannot be verified.                            *)
ImportAborts(a) ==
    /\ Importing(a)
    /\ IF Public # {} THEN UNCHANGED faults ELSE Fault
    /\ IF Cardinality(Matching) = 1 THEN Returns(a, TheOnly(Matching)) ELSE Fails(a)
    /\ UNCHANGED <<entries, edits>>

Next ==
    \/ AddByHand \/ Remove
    \/ \E c \in Cabinets :
        ChooseLink(c) \/ Reload(c) \/ Tick(c) \/ Write(c)
    \/ \E c \in Forms :
        OpenForm(c) \/ CloseForm(c) \/ SubmitGroups(c)
    \/ \E a \in Actors :
        \/ Found(a) \/ NotFound(a) \/ LookupFails(a)
        \/ Lock(a) \/ Import(a) \/ ImportAborts(a)

Spec == Init /\ [][Next]_vars

(* The timer goes on, requests end, and the lock is handed out in order.      *)
Progress(a) == Found(a) \/ Import(a) \/ ImportAborts(a)

Reloads == \E c \in Cabinets : reload[c] /\ Reload(c)

Discovers(c) == Tick(c) \/ Write(c) \/ Progress(<<"task", c>>)

FormImports == \E c \in Forms : Import(<<"form", c>>) \/ ImportAborts(<<"form", c>>)

Fairness ==
    /\ \A c \in Cabinets : WF_vars(Discovers(c)) /\ SF_vars(Lock(<<"task", c>>))
    /\ WF_vars(Reloads) /\ WF_vars(FormImports)

FairSpec == Spec /\ Fairness

-------------------------------------------------------------------------------
(* The lock is held by an import that runs, and by nothing else               *)
(* (account_buildings.py:34-58).                                              *)
TypeOK ==
    /\ entries \in [Ids -> {"unused", "public", "alias", "removed"}]
    /\ link \in [Cabinets -> Ids \cup {NoLink, Disabled}]
    /\ reload \in [Cabinets -> BOOLEAN]
    /\ states \in [Cabinets -> {"none", "pending", "confirmation", "unavailable"}]
    /\ calls \in [Actors -> Call]
    /\ faults \in 0..MaxFaults /\ edits \in 0..MaxEdits
    /\ \A a \in Actors : Importing(a) <=> lock = a

(* Cabinets, forms and a user who sets the building up by hand, in any order, *)
(* never leave two entries of one address: both schedules would be polled and *)
(* no account could be linked again (account_buildings.py:36-53,              *)
(* config_flow.py:165-166).                                                    *)
OneEntryPerAddress == Cardinality(Public) <= 1

(* The discovery links an account that has no link at that moment, and never  *)
(* replaces what a user chose while it was looking                            *)
(* (account_buildings.py:95-102, :152-159).                                    *)
KeepsLink ==
    \A c \in Cabinets :
      Write(c) /\ link'[c] # link[c] => link[c] = NoLink

UserLinkStands == [][KeepsLink]_vars

(* Once the discovery has begun, the account is linked in the end, or waits   *)
(* for the user to confirm its building; outages and reloads are retried      *)
(* (account_buildings.py:71-83, :122-151).                                    *)
AccountsSettle ==
    \A c \in Cabinets :
        states[c] # "none"
            ~> link[c] # NoLink \/ states[c] = "confirmation" \/ Unused = {}
================================================================================
