--------------------------- MODULE EnergyReferences ---------------------------
(* The local energy references of account_energy.py for one account in the   *)
(* estimate mode: a reading of the official meter is paired with a reading of *)
(* a Home Assistant sensor, and later readings are estimated from the pair.   *)
(* The estimate is worthless once the sensor was reset or replaced, so every  *)
(* report of the sensor is tracked and a discontinuity is latched.            *)
(*                                                                            *)
(* All operations run under one asyncio.Lock, which is granted in the order   *)
(* of the requests: one that finds the lock free runs at once to its write or *)
(* its end, any other waits in `queue` while the sensor goes on counting.     *)
(* `holder` is the operation whose write the executor runs.                   *)
EXTENDS Integers, Sequences, FiniteSets

CONSTANTS
    Zones,      \* tariff zones of the meter, each with a sensor of its own
    Devices,    \* identities (fingerprint and unit) a sensor may have
    MaxMeter,   \* bound: consumption per zone
    MaxValue,   \* bound: what a sensor may show
    MaxEpoch,   \* bound: resets and replacements per zone
    MaxRefs,    \* bound: reference pairs captured
    MaxQueue,   \* bound: operations that wait for the lock
    MaxTokens,  \* bound: tokens held, of the 32 in _token()
    NoBinding, NoToken, NoOp    \* None, in its various places

Faults == {"none", "source_reset", "source_changed", "source_jump"}

(* A report of a sensor.  The epoch is not known to the program: it counts    *)
(* the discontinuities of the sensor so far.                                  *)
Samples == [value : 0..MaxValue, device : Devices, epoch : 0..MaxEpoch]

(* A row of a binding: the reference pair, the highest value seen since, and  *)
(* the epoch in which the pair was captured.                                  *)
Rows == [meter : 0..MaxMeter, source : 0..MaxValue, high : 0..MaxValue,
         device : Devices, fault : Faults, epoch : 0..MaxEpoch]
Bindings == [ref : 1..MaxRefs, rows : [Zones -> Rows]]

(* What _token() holds, and what the official meter and the sensors were at    *)
(* the time.                                                                  *)
Tokens == [kind : {"proposal", "change"}, base : (0..MaxRefs) \X SUBSET Zones,
           binding : Bindings \cup {NoBinding}, readings : [Zones -> Int],
           truth : [Zones -> [meter : 0..MaxMeter, epoch : 0..MaxEpoch]]]

(* The operation whose write is running, with what it will return.            *)
Writes == [op : {"observe", "get", "check", "confirm", "save", "remove"},
           result : Tokens \cup {NoToken}]

(* The constants are as the definitions below take them to be.  A module that  *)
(* instantiates this one assumes it.                                          *)
ReferenceConstants ==
    /\ MaxMeter \in Nat /\ MaxValue \in Nat /\ MaxEpoch \in Nat
    /\ MaxRefs \in Nat /\ MaxQueue \in Nat /\ MaxTokens \in Nat
    /\ NoBinding \notin Bindings /\ NoToken \notin Tokens /\ NoOp \notin Writes

VARIABLES
    manager,    \* "open"; "failed": _failed is set; "closed": _closed is set
    listening,  \* the state listener is subscribed
    data,       \* EnergyManager._data for the account
    disk,       \* what its file holds
    tokens,     \* EnergyManager._tokens: proposals and reviewed changes
    queue,      \* operations waiting for the lock, in order
    holder,     \* the operation whose write is running
    target,     \* the binding it writes
    nextRef,
    sending,    \* the proposal that a confirmed submission is about to send
    source,     \* what each sensor shows
    meter,      \* what each register of the official meter shows
    doubt,      \* references before this one have missed a report
    latched     \* <<reference, zone>> of the faults that were saved

programVars == <<manager, listening, data, disk, tokens, queue, holder, target,
                 nextRef, sending>>
lockVars    == <<queue, holder, target>>
worldVars   == <<source, meter>>
ghostVars   == <<doubt, latched>>
vars        == <<programVars, worldVars, ghostVars>>

Init ==
    /\ manager = "open" /\ listening = TRUE
    /\ data = NoBinding /\ disk = NoBinding /\ tokens = {}
    /\ queue = <<>> /\ holder = NoOp /\ target = NoBinding
    /\ nextRef = 1 /\ sending = NoToken
    /\ source \in [Zones -> {s \in Samples : s.value = 0 /\ s.epoch = 0}]
    /\ meter = [z \in Zones |-> 0]
    /\ doubt = 1 /\ latched = {}

-------------------------------------------------------------------------------
(* A revision is drawn anew when a pair is captured and when a fault is       *)
(* latched, so it stands for the pair and its faults.                         *)
Revision(binding) ==
    IF binding = NoBinding THEN <<0, {}>>
    ELSE <<binding.ref, {z \in Zones : binding.rows[z].fault # "none"}>>

Faultless(binding) == \A z \in Zones : binding.rows[z].fault = "none"

(* _track: what may become of a row when a report is held against it.  A rise *)
(* by more than 1 kWh may or may not exceed what the power limit permits.     *)
Track(row, sample) ==
    IF row.fault # "none"
    THEN {row}
    ELSE IF sample.device # row.device
    THEN {[row EXCEPT !.fault = "source_changed"]}
    ELSE IF sample.value < row.high
    THEN {[row EXCEPT !.fault = "source_reset"]}
    ELSE {[row EXCEPT !.high = sample.value]} \cup
         {[row EXCEPT !.fault = f] :
             f \in IF sample.value > row.high + 1 THEN {"source_jump"} ELSE {}}

TrackAllForgets(binding, read, samples) ==                         \* mutated
    {[binding EXCEPT !.rows = rows] :
        rows \in {r \in [Zones -> UNION {Track(binding.rows[z], samples[z]) \cup
                               {[binding.rows[z] EXCEPT !.fault = "none"]} : z \in Zones}] :
                     \A z \in Zones :
                        r[z] \in IF z \in read THEN Track(binding.rows[z], samples[z])
                                 ELSE {[binding.rows[z] EXCEPT !.fault = "none"]}}}

(* The bindings that may result when the zones in `read` report `samples`.    *)
TrackAll(binding, read, samples) ==
    {[binding EXCEPT !.rows = rows] :
        rows \in {r \in [Zones -> UNION {Track(binding.rows[z], samples[z]) \cup
                                            {binding.rows[z]} : z \in Zones}] :
                     \A z \in Zones :
                        r[z] \in IF z \in read THEN Track(binding.rows[z], samples[z])
                                               ELSE {binding.rows[z]}}}

(* estimate, for a report that continues the row.                             *)
Estimate(row, value) == row.meter + value - row.source

(* What the official meter shows at this moment, and in which epoch the       *)
(* sensors are: known to the properties, not to the program.                  *)
Truth == [z \in Zones |-> [meter |-> meter[z], epoch |-> source[z].epoch]]

(* get: the proposal that a ready view offers.                                *)
Proposal(binding) ==
    [kind |-> "proposal", base |-> Revision(binding), binding |-> NoBinding,
     readings |-> [z \in Zones |-> Estimate(binding.rows[z], source[z].value)],
     truth |-> Truth]

(* preview: the pair of what the user reads off the meter and the sensor's    *)
(* report of the same time.                                                   *)
Captured ==
    [ref |-> nextRef,
     rows |-> [z \in Zones |->
         [meter |-> meter[z], source |-> source[z].value, high |-> source[z].value,
          device |-> source[z].device, fault |-> "none", epoch |-> source[z].epoch]]]

Change ==
    [kind |-> "change", base |-> Revision(data), binding |-> Captured,
     readings |-> [z \in Zones |-> 0], truth |-> Truth]

(* _lookup, for a token that has not expired.                                 *)
Live(token, kind) ==
    token \in tokens /\ token.kind = kind /\ token.base = Revision(data)

-------------------------------------------------------------------------------
(* What each operation does when it holds the lock, up to its write or end.   *)
(* A write leaves the result to be delivered once it is on disk.              *)
Persist(name, result, binding) ==
    /\ holder' = [op |-> name, result |-> result] /\ target' = binding

Deliver(name, result) ==
    /\ tokens' = IF name = "get" THEN tokens \cup ({result} \ {NoToken})
                 ELSE IF name = "save" THEN tokens \ {result}
                 ELSE tokens
    /\ sending' = IF name = "confirm" THEN result ELSE sending

(* A view makes a new proposal, or upholds one whose revision it leaves.      *)
Answer(token, binding) ==
    IF token = NoToken THEN Proposal(binding)
    ELSE IF token.base = Revision(binding) THEN token ELSE NoToken

(* _view, in get, summary and validate_proposal: every zone whose sensor can  *)
(* be read is tracked.  A ready view, with all zones and no fault, has a      *)
(* result, unless an estimate overflows the register, the meter is another    *)
(* one, or nobody asked for it.                                               *)
View(name, token) ==
    \E read \in SUBSET Zones : \E new \in TrackAll(data, read, source) :
        LET ready == read = Zones /\ Faultless(new)
        IN  \E result \in {NoToken} \cup (IF ready THEN {Answer(token, new)} ELSE {}) :
                IF new = data
                THEN Deliver(name, result) /\ UNCHANGED <<holder, target>>
                ELSE Persist(name, result, new) /\ UNCHANGED <<tokens, sending>>

Get ==
    /\ data # NoBinding
    /\ View("get", NoToken)
    /\ UNCHANGED nextRef

(* validate_proposal, called by prepare ("check") and confirm: the token must *)
(* be live before the view and, with the revision the view leaves, after it.  *)
Validate(op) ==
    /\ Live(op.token, "proposal")
    /\ View(op.op, op.token)
    /\ UNCHANGED nextRef

PreviewKeepsRevision ==                                            \* mutated
    /\ nextRef <= MaxRefs
    /\ tokens' = tokens \cup {Change}
    /\ UNCHANGED <<holder, target, sending, nextRef>>

(* preview, of a new binding or of a calibration of the present one.          *)
Preview ==
    /\ nextRef <= MaxRefs
    /\ tokens' = tokens \cup {Change} /\ nextRef' = nextRef + 1
    /\ UNCHANGED <<holder, target, sending>>

Save(op) ==
    /\ Live(op.token, "change")
    /\ \E new \in TrackAll(op.token.binding, Zones, source) :
          Faultless(new) /\ Persist("save", op.token, new)
    /\ UNCHANGED <<tokens, sending, nextRef>>

Remove ==
    /\ data # NoBinding
    /\ Persist("remove", NoToken, NoBinding)
    /\ UNCHANGED <<tokens, sending, nextRef>>

ObserveIgnoresDrafts(op) ==                                        \* mutated
    /\ IF data = NoBinding
       THEN UNCHANGED <<holder, target>>
       ELSE \E new \in TrackAll(data, {op.zone}, [z \in Zones |-> op.sample]) :
               IF new = data THEN UNCHANGED <<holder, target>>
                             ELSE Persist("observe", NoToken, new)
    /\ UNCHANGED <<tokens, sending, nextRef>>

(* observe, with the event's own report: held against the saved binding and   *)
(* against every change under review.                                         *)
Observe(op) ==
    LET report     == [z \in Zones |-> op.sample]
        changes    == {t \in tokens : t.kind = "change"}
        Tracked(t) == {[t EXCEPT !.binding = b] :
                          b \in TrackAll(t.binding, {op.zone}, report)}
    IN  /\ \E f \in {g \in [changes -> UNION {Tracked(t) : t \in changes}] :
                        \A t \in changes : g[t] \in Tracked(t)} :
              tokens' = (tokens \ changes) \cup {f[t] : t \in changes}
        /\ IF data = NoBinding
           THEN UNCHANGED <<holder, target>>
           ELSE \E new \in TrackAll(data, {op.zone}, report) :
                   IF new = data THEN UNCHANGED <<holder, target>>
                                 ELSE Persist("observe", NoToken, new)
        /\ UNCHANGED <<sending, nextRef>>

(* The operation is refused: by _load, by a stale token or revision, because  *)
(* a sensor cannot be read or tracking it finds a fault.                      *)
Refused == UNCHANGED <<tokens, holder, target, nextRef, sending>>

Execute(op) ==
    /\ IF op.op = "close"
       THEN /\ manager' = "closed" /\ tokens' = {}
            /\ UNCHANGED <<holder, target, nextRef, sending>>
       ELSE /\ UNCHANGED manager
            /\ IF manager # "open" THEN Refused
               ELSE \/ op.op = "observe" /\ Observe(op)
                    \/ op.op = "get" /\ Get
                    \/ op.op \in {"check", "confirm"} /\ Validate(op)
                    \/ op.op = "preview" /\ Preview
                    \/ op.op = "save" /\ Save(op)
                    \/ op.op = "remove" /\ Remove
                    \/ op.op # "observe" /\ Refused
    /\ doubt' = IF op.op = "observe" /\ manager # "open" THEN nextRef ELSE doubt
    /\ UNCHANGED <<listening, data, disk, latched>>

-------------------------------------------------------------------------------
(* The lock *)
Submit(op) ==
    IF holder = NoOp /\ queue = <<>>
    THEN Execute(op) /\ UNCHANGED queue
    ELSE /\ Len(queue) < MaxQueue
         /\ queue' = Append(queue, op)
         /\ UNCHANGED <<manager, listening, data, disk, tokens, holder, target, nextRef,
                        sending, ghostVars>>

RunNextNewestFirst ==                                              \* mutated
    /\ holder = NoOp /\ queue # <<>>
    /\ Execute(queue[Len(queue)]) /\ queue' = SubSeq(queue, 1, Len(queue) - 1)
    /\ UNCHANGED worldVars

RunNext ==
    /\ holder = NoOp /\ queue # <<>>
    /\ Execute(Head(queue)) /\ queue' = Tail(queue)
    /\ UNCHANGED worldVars

SaveReturns ==
    /\ holder # NoOp
    /\ data' = target /\ disk' = target
    /\ latched' = IF target = NoBinding THEN latched
                  ELSE latched \cup
                       {<<target.ref, z>> : z \in {y \in Zones :
                                              target.rows[y].fault # "none"}}
    /\ IF holder.op = "confirm" /\ holder.result \notin tokens
       THEN UNCHANGED <<tokens, sending>>
       ELSE Deliver(holder.op, holder.result)
    /\ holder' = NoOp /\ target' = NoBinding
    /\ UNCHANGED <<manager, listening, queue, nextRef, worldVars, doubt>>

(* The write raises or its task is cancelled: it may be on disk or not, and   *)
(* _failed ends the use of what is in memory.                                 *)
SaveFails ==
    /\ holder # NoOp
    /\ disk' \in {disk, target} /\ manager' = "failed" /\ doubt' = nextRef
    /\ holder' = NoOp /\ target' = NoBinding
    /\ UNCHANGED <<listening, data, tokens, queue, nextRef, sending, worldVars, latched>>

-------------------------------------------------------------------------------
(* The requests of users, of the submission manager and of the scheduler.     *)
Submitting ==
    \/ sending # NoToken
    \/ holder # NoOp /\ holder.op \in {"check", "confirm"}
    \/ \E i \in DOMAIN queue : queue[i].op \in {"check", "confirm"}

Room == Cardinality(tokens) < MaxTokens

AskGet == Room /\ Submit([op |-> "get"]) /\ UNCHANGED worldVars
AskPreview == Room /\ Submit([op |-> "preview"]) /\ UNCHANGED worldVars
AskRemove == Submit([op |-> "remove"]) /\ UNCHANGED worldVars

AskSave ==
    /\ \E t \in tokens : t.kind = "change" /\ Submit([op |-> "save", token |-> t])
    /\ UNCHANGED worldVars

AskValidate ==
    /\ ~Submitting
    /\ \E t \in tokens, name \in {"check", "confirm"} :
          t.kind = "proposal" /\ Submit([op |-> name, token |-> t])
    /\ UNCHANGED worldVars

ExpireToken ==
    /\ \E t \in tokens : tokens' = tokens \ {t}
    /\ UNCHANGED <<manager, listening, data, disk, lockVars, nextRef, sending, worldVars,
                   ghostVars>>

GuardIgnoresRevision(token) ==                                     \* mutated
    /\ manager = "open" /\ data # NoBinding
    /\ \E new \in TrackAll(data, Zones, source) : Faultless(new)

(* guard_proposal: no await, so without the lock, right before the POST.      *)
Guard(token) ==
    /\ manager = "open" /\ Live(token, "proposal")
    /\ \E new \in TrackAll(data, Zones, source) : Faultless(new)

Send ==
    /\ sending # NoToken /\ Guard(sending)
    /\ sending' = NoToken
    /\ UNCHANGED <<manager, listening, data, disk, tokens, lockVars, nextRef, worldVars,
                   ghostVars>>

(* Anything before the POST fails, or the guard refuses it.                   *)
Abandon ==
    /\ sending # NoToken
    /\ sending' = NoToken
    /\ UNCHANGED <<manager, listening, data, disk, tokens, lockVars, nextRef, worldVars,
                   ghostVars>>

-------------------------------------------------------------------------------
(* The sensors.  uses() asks for the saved binding and for reviewed changes.  *)
Uses ==
    /\ listening /\ manager # "closed"
    /\ data # NoBinding \/ \E t \in tokens : t.kind = "change"

Report(z, sample) ==
    /\ source' = [source EXCEPT ![z] = sample]
    /\ IF Uses
       THEN Submit([op |-> "observe", zone |-> z, sample |-> sample])
       ELSE /\ doubt' = nextRef
            /\ UNCHANGED <<programVars, latched>>

Rise(z, k) ==
    /\ meter[z] + k <= MaxMeter /\ source[z].value + k <= MaxValue
    /\ meter' = [meter EXCEPT ![z] = @ + k]
    /\ Report(z, [source[z] EXCEPT !.value = @ + k])

Reset(z, value) ==
    /\ value < source[z].value /\ source[z].epoch < MaxEpoch
    /\ Report(z, [source[z] EXCEPT !.value = value, !.epoch = @ + 1])
    /\ UNCHANGED meter

Replace(z, device, value) ==
    /\ device # source[z].device /\ source[z].epoch < MaxEpoch
    /\ Report(z, [value |-> value, device |-> device, epoch |-> source[z].epoch + 1])
    /\ UNCHANGED meter

-------------------------------------------------------------------------------
(* close: the listener is gone before the lock is asked for.                  *)
Close ==
    /\ listening
    /\ listening' = FALSE
    /\ IF holder = NoOp /\ queue = <<>>
       THEN /\ manager' = "closed" /\ tokens' = {} /\ UNCHANGED queue
       ELSE /\ queue' = Append(queue, [op |-> "close"])
            /\ UNCHANGED <<manager, tokens>>
    /\ UNCHANGED <<data, disk, holder, target, nextRef, sending, worldVars, ghostVars>>

(* Home Assistant stops dead, perhaps with a write half done.                 *)
Crash ==
    /\ listening \/ manager # "closed"
    /\ manager' = "closed" /\ listening' = FALSE
    /\ disk' \in IF holder = NoOp THEN {disk} ELSE {disk, target}
    /\ doubt' = IF holder = NoOp /\ queue = <<>> THEN doubt ELSE nextRef
    /\ data' = NoBinding /\ tokens' = {} /\ sending' = NoToken
    /\ queue' = <<>> /\ holder' = NoOp /\ target' = NoBinding
    /\ UNCHANGED <<nextRef, worldVars, latched>>

(* A new manager reads the file; if it cannot, it never listens.              *)
SetUp ==
    /\ manager = "closed"
    /\ \/ manager' = "open" /\ listening' = TRUE /\ data' = disk
       \/ manager' = "failed" /\ listening' = FALSE /\ data' = NoBinding
    /\ tokens' = {} /\ queue' = <<>> /\ sending' = NoToken
    /\ UNCHANGED <<disk, holder, target, nextRef, worldVars, ghostVars>>

-------------------------------------------------------------------------------
Ask == AskGet \/ AskPreview \/ AskRemove \/ AskSave \/ AskValidate

Sensors ==
    \E z \in Zones :
        \/ \E k \in 1..MaxValue : Rise(z, k)
        \/ \E value \in 0..MaxValue : Reset(z, value)
        \/ \E device \in Devices, value \in 0..MaxValue : Replace(z, device, value)

Proceed == RunNext \/ SaveReturns \/ SaveFails

Next ==
    \/ Ask \/ ExpireToken \/ Send \/ Abandon \/ Sensors \/ Close \/ SetUp \/ Crash
    \/ Proceed

Spec == Init /\ [][Next]_vars

(* Writes end and the event loop gives the lock to the first that waits.      *)
FairSpec == Spec /\ WF_vars(Proceed)

-------------------------------------------------------------------------------
(* Properties *)

TypeOK ==
    /\ manager \in {"open", "failed", "closed"} /\ listening \in BOOLEAN
    /\ data \in Bindings \cup {NoBinding} /\ disk \in Bindings \cup {NoBinding}
    /\ tokens \subseteq Tokens /\ sending \in Tokens \cup {NoToken}
    /\ Len(queue) <= MaxQueue + 1
    /\ target \in Bindings \cup {NoBinding}
    /\ holder # NoOp => holder.result \in Tokens \cup {NoToken}
    /\ \A t \in tokens : t.kind = "change" => t.binding.ref < nextRef
    /\ nextRef \in 1..(MaxRefs + 1) /\ doubt \in 1..nextRef
    /\ source \in [Zones -> Samples] /\ meter \in [Zones -> 0..MaxMeter]
    /\ latched \subseteq (1..MaxRefs) \X Zones

(* A fault that was saved once stays with its reference in memory and on      *)
(* disk, through rebounds, new views and restarts ("Observed resets remain    *)
(* flagged after a rebound or HA restart").                                   *)
ResetsStay ==
    \A binding \in {data, disk} \ {NoBinding} :
        \A z \in Zones :
            <<binding.ref, z>> \in latched => binding.rows[z].fault # "none"

(* A reset or a replacement of the sensor since the pair of a zone was        *)
(* captured whose report has not been lost, and that is not yet marked.       *)
Broken(z) ==
    /\ data # NoBinding /\ data.ref >= doubt
    /\ data.rows[z].epoch < source[z].epoch
    /\ data.rows[z].fault = "none"

Waits(z, epoch) ==
    \/ \E i \in DOMAIN queue :
          /\ queue[i].op = "observe" /\ queue[i].zone = z
          /\ queue[i].sample.epoch > epoch
    \/ holder # NoOp /\ target # NoBinding /\ target.rows[z].fault # "none"

(* While the manager works, a discontinuity of the sensor is marked in the    *)
(* reference, or its report waits for the lock or is being written: none is   *)
(* forgotten because a later report looked plausible again.                   *)
NeverSilentlyRepaired ==
    /\ TypeOK
    /\ manager = "open" => \A z \in Zones : Broken(z) => Waits(z, data.rows[z].epoch)

(* A proposal that the last check before the POST lets through says what the  *)
(* official meter showed when it was made, and no sensor was reset or         *)
(* replaced since unless the report of that still waits: although reports     *)
(* wait for the lock while proposals are made and checked, and the last check *)
(* itself does not take the lock.  Reports that were lost are excepted.       *)
SendsTruly ==
    Send => \/ sending.base[1] < doubt
            \/ \A z \in Zones :
                  /\ sending.readings[z] = sending.truth[z].meter
                  /\ \/ sending.truth[z].epoch = source[z].epoch
                     \/ Waits(z, sending.truth[z].epoch)

SendsTruth == [][SendsTruly]_vars

(* A discontinuity does not stay unmarked: it is written to the reference,    *)
(* or the reference is given up, replaced or declared unusable.               *)
ResetNoticed == \A z \in Zones : (manager = "open" /\ Broken(z)) ~>
                                 ~(manager = "open" /\ Broken(z))

(* Only a sensor that was reset or replaced is said to have been reset.       *)
ResetsAreReal ==
    data # NoBinding =>
        \A z \in Zones : data.rows[z].fault = "source_reset" =>
                            data.rows[z].epoch < source[z].epoch
===============================================================================
