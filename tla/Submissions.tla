------------------------------ MODULE Submissions ------------------------------
(* The submission of meter readings: SubmissionManager (account_submission.py)*)
(* with its durable journal (account_submission_store.py), the single POST of *)
(* DTEKAccountClient.submit_readings (account_client.py), the websocket       *)
(* handler's authorization (account_submission_api.py) and the unloading of   *)
(* the config entry (__init__.py), among cancellations, crashes, failing      *)
(* disks and a cabinet that may answer late, unclearly or never.              *)
(*                                                                            *)
(* Every operation of the manager runs under one asyncio.Lock, and a task     *)
(* that waits for the lock holds no state of its own.  So the state of all    *)
(* tasks is that of the one holding the lock: `phase` names what it awaits,   *)
(* `task` is the request it serves and `record` the attempt it is making.     *)
EXTENDS ReadingRules, FiniteSetsExt

CONSTANTS
    Accounts,       \* personal accounts of the config entry
    Users,          \* Home Assistant users
    Contexts,       \* meter contexts the cabinet may show: [day, previous]
    Readings,       \* values that may be entered: functions from zones
    PhotoSizes,     \* bytes of the photos attached to a draft
    Sources,        \* {FALSE}, or {TRUE, FALSE} with local energy proposals
    DraftLimit,     \* 32 in prepare()
    PhotoBudget,    \* MAX_DRAFT_PHOTO_BYTES
    Revocable,      \* users whose authorization may be withdrawn
    Unlinkable,     \* accounts that may disappear from the cabinet
    MaxTokens,      \* bound: confirmations issued
    MaxAttempts,    \* bound: attempts made
    NotLoaded, NoTask, NoOutcome, NoSignature,  \* None, in its various places
    RepeatedCancel  \* may a task be cancelled again while it handles a cancel?

ASSUME DraftLimitAssumption == DraftLimit \in Nat \ {0}
ASSUME BoundsAssumption == MaxTokens \in Nat /\ MaxAttempts \in Nat
(* A draft has a photo of at most 1 MB for each of at most two zones, and all *)
(* drafts together have 16 MB: a draft alone always fits.                     *)
ASSUME PhotoAssumption == PhotoBudget \in Nat /\ PhotoSizes \subseteq 0..PhotoBudget
ASSUME SourcesAssumption == Sources \subseteq BOOLEAN
ASSUME RepeatedCancelAssumption == RepeatedCancel \in BOOLEAN

Ids    == 1..MaxAttempts
Tokens == 1..MaxTokens

Statuses == {"none", "pending", "unknown", "partial", "accepted", "rejected",
             "not_sent", "acknowledged"}

(* A draft; a request to prepare one has the token 0.                         *)
Requests == [token : {0}, number : Accounts, user : Users, context : Contexts,
             readings : Readings, photos : PhotoSizes, source : Sources]
Drafts   == [token : Nat, number : Accounts, user : Users, context : Contexts,
             readings : Readings, photos : PhotoSizes, source : Sources]

(* The journal keeps the last attempt of each account; id 0 is no attempt.    *)
Records  == [id : Nat, status : Statuses,
             signature : {NoSignature} \cup [day : {c.day : c \in Contexts},
                                             readings : Readings]]
NoRecord == [id |-> 0, status |-> "none", signature |-> NoSignature]
Journals == [Accounts -> Records]

ASSUME NoneAssumption ==
    NotLoaded \notin Journals /\ NoTask \notin Drafts /\ NoOutcome \notin Outcomes

VARIABLES
    entry,      \* the config entry: "loaded", "unloading", "closing", "unloaded"
    admins,     \* users an administrator's authorization still holds for
    linked,     \* accounts the client last saw in the cabinet (client._accounts)
    drafts,     \* SubmissionManager._drafts, in the order of their tokens
    nextToken,
    journal,    \* SubmissionManager._journal
    phase,      \* what the holder of the lock awaits; "free": nobody holds it
    task,       \* the draft or request it works on
    record,     \* the journal record of its attempt
    cancelled,  \* it was cancelled while its write runs on
    target,     \* the journal its executor job is writing
    landed,     \* os.replace has put the target in place
    orphans,    \* journals that executor jobs nobody waits for still write
    disk,       \* the journal file as a reader sees it
    images,     \* the journals the file may hold after a power failure
    nextId,
    posted,     \* [id, draft] of every POST ever sent
    outcome,    \* what the cabinet did with a POST
    settled     \* attempts whose outcome the program or the user has established

hostVars   == <<entry, admins, linked>>
draftVars  == <<drafts, nextToken>>
writeVars  == <<target, landed, orphans, disk, images>>
worldVars  == <<posted, outcome, settled>>
taskVars   == <<phase, task, record, cancelled>>
vars == <<hostVars, draftVars, journal, taskVars, writeVars, nextId, worldVars>>

Phases == {"free", "reading", "source", "pending", "token", "post", "recording"}
Saving == phase \in {"pending", "recording"}

Authorized(user) == entry = "loaded" /\ user \in admins
Unresolved(rec)  == rec.status \in {"pending", "unknown", "partial"}

(* _load: the first operation of a manager reads the file, later ones do not. *)
Loaded == IF journal = NotLoaded THEN disk ELSE journal

Init ==
    /\ entry = "loaded" /\ admins = Users /\ linked = Accounts
    /\ drafts = {} /\ nextToken = 1
    /\ journal = NotLoaded
    /\ phase = "free" /\ task = NoTask /\ record = NoRecord /\ cancelled = FALSE
    /\ target = NotLoaded /\ landed = FALSE /\ orphans = {}
    /\ disk = [n \in Accounts |-> NoRecord] /\ images = {disk}
    /\ nextId = 1
    /\ posted = {} /\ outcome = [p \in Ids |-> NoOutcome] /\ settled = {}

-------------------------------------------------------------------------------
(* The lock.  close() sets _closed without it, so an operation that already   *)
(* runs goes on, and one that gets the lock later is refused by _load.        *)
MayEnterWhileClosing == phase = "free" /\ entry # "unloaded"     \* mutated

MayEnter == phase = "free" /\ entry \in {"loaded", "unloading"}

ReleaseUnlessCancelled ==                                         \* mutated
    /\ phase' = IF cancelled THEN phase ELSE "free"
    /\ task' = NoTask /\ record' = NoRecord
    /\ cancelled' = cancelled /\ target' = target /\ landed' = landed

Release ==
    /\ phase' = "free" /\ task' = NoTask /\ record' = NoRecord
    /\ cancelled' = FALSE /\ target' = NotLoaded /\ landed' = FALSE

(* _save: the whole journal with one record replaced goes to an executor job. *)
(* The pending record is followed by the POST; any other ends the operation.  *)
SavePending(rec) ==
    /\ phase' = "pending" /\ record' = rec
    /\ target' = [journal EXCEPT ![task.number] = rec] /\ landed' = FALSE
    /\ UNCHANGED <<task, cancelled>>

SaveLast(old, number, rec) ==
    /\ phase' = "recording" /\ task' = NoTask /\ record' = NoRecord
    /\ target' = [old EXCEPT ![number] = rec] /\ landed' = FALSE
    /\ UNCHANGED cancelled

(* last_attempt, and any operation that loads the journal and then fails.     *)
LastAttempt ==
    /\ MayEnter
    /\ journal' = Loaded
    /\ UNCHANGED <<hostVars, draftVars, taskVars, writeVars, nextId, worldVars>>

(* A draft passes its 300 s.  The code drops it when it next looks.           *)
ExpireDraft ==
    /\ \E d \in drafts : drafts' = drafts \ {d}
    /\ UNCHANGED <<hostVars, nextToken, journal, taskVars, writeVars, nextId, worldVars>>

(* context and check_source: hold the lock while they look into the cabinet.  *)
Inspect ==
    /\ MayEnter
    /\ \E number \in Accounts : ~Unresolved(Loaded[number])
    /\ journal' = Loaded
    /\ phase' = "reading"
    /\ UNCHANGED <<hostVars, draftVars, task, record, cancelled, writeVars, nextId,
                   worldVars>>

-------------------------------------------------------------------------------
(* prepare *)
PrepareBegin(request) ==
    /\ MayEnter /\ nextToken \in Tokens
    /\ Authorized(request.user)
    /\ ~Unresolved(Loaded[request.number])
    /\ journal' = Loaded
    /\ phase' = "reading" /\ task' = request
    /\ UNCHANGED <<hostVars, draftVars, record, cancelled, writeVars, nextId, worldVars>>

Preparing  == task # NoTask /\ task.token = 0
Confirming == task # NoTask /\ task.token # 0

AlreadySent(draft) ==
    /\ journal[draft.number].status = "accepted"
    /\ journal[draft.number].signature = Signature(draft.context, draft.readings)

PhotoBytes(d) == d.photos

(* Oldest drafts make room until the new one fits: what stays is the longest  *)
(* run of newest ones that leaves room.                                       *)
FitsBeforeTheNewOne(kept, photos) ==                               \* mutated
    /\ Cardinality(kept) < DraftLimit
    /\ MapThenSumSet(PhotoBytes, kept) <= PhotoBudget

Fits(kept, photos) ==
    /\ Cardinality(kept) < DraftLimit
    /\ photos + MapThenSumSet(PhotoBytes, kept) <= PhotoBudget

Evict(pool, photos) ==
    {d \in pool : Fits({e \in pool : e.token >= d.token}, photos)}

(* The tail of prepare, after its last await.                                 *)
Draft ==
    LET others == {d \in drafts : d.number # task.number \/ d.user # task.user}
    IN  /\ ~AlreadySent(task)
        /\ drafts' = Evict(others, task.photos) \cup {[task EXCEPT !.token = nextToken]}
        /\ nextToken' = nextToken + 1
        /\ Release
        /\ UNCHANGED <<hostVars, journal, orphans, disk, images, nextId, worldVars>>

(* The cabinet's answer to list_accounts, data and meters-with-readings is    *)
(* what the card showed, and the values entered are admissible in it.         *)
ContextHolds(context) ==
    /\ task.number \in linked
    /\ Authorized(task.user)
    /\ context = task.context
    /\ Admissible(context, task.readings)

PrepareRead ==
    /\ phase = "reading" /\ Preparing /\ ~task.source
    /\ \E context \in Contexts : ContextHolds(context)
    /\ Draft

-------------------------------------------------------------------------------
(* confirm *)
ConfirmBeginKeepsDraft(draft) ==                                   \* mutated
    /\ MayEnter
    /\ Authorized(draft.user)
    /\ journal' = Loaded
    /\ drafts' = drafts
    /\ IF Unresolved(Loaded[draft.number])
       THEN UNCHANGED <<phase, task>>
       ELSE phase' = "reading" /\ task' = draft
    /\ UNCHANGED <<hostVars, nextToken, record, cancelled, writeVars, nextId, worldVars>>

ConfirmBeginUnblocked(draft) ==                                    \* mutated
    /\ MayEnter
    /\ Authorized(draft.user)
    /\ journal' = Loaded
    /\ drafts' = drafts \ {draft}
    /\ phase' = "reading" /\ task' = draft
    /\ UNCHANGED <<hostVars, nextToken, record, cancelled, writeVars, nextId, worldVars>>

ConfirmBegin(draft) ==
    /\ MayEnter
    /\ Authorized(draft.user)
    /\ journal' = Loaded
    \* Consumed before any await, and also when the account is still blocked.
    /\ drafts' = drafts \ {draft}
    /\ IF Unresolved(Loaded[draft.number])
       THEN UNCHANGED <<phase, task>>
       ELSE phase' = "reading" /\ task' = draft
    /\ UNCHANGED <<hostVars, nextToken, record, cancelled, writeVars, nextId, worldVars>>

(* The tail of confirm up to the save of its pending record.                  *)
Attempt ==
    /\ nextId \in Ids
    /\ ~AlreadySent(task)
    /\ SavePending([id |-> nextId, status |-> "pending",
                    signature |-> Signature(task.context, task.readings)])
    /\ nextId' = nextId + 1
    /\ UNCHANGED <<hostVars, draftVars, journal, orphans, disk, images, worldVars>>

ConfirmRead ==
    /\ phase = "reading" /\ Confirming /\ ~task.source
    /\ \E context \in Contexts :
          /\ task.number \in linked
          /\ Authorized(task.user)
          /\ context = task.context
    /\ Attempt

(* energy.validate_proposal: awaits its own lock and perhaps a save, and the  *)
(* code does not look at the authorization again when it returns.             *)
ReadThenSource ==
    /\ phase = "reading" /\ task # NoTask /\ task.source
    /\ \E context \in Contexts :
          /\ task.number \in linked
          /\ Authorized(task.user)
          /\ context = task.context
          /\ Preparing => Admissible(context, task.readings)
    /\ phase' = "source"
    /\ UNCHANGED <<hostVars, draftVars, journal, task, record, cancelled, writeVars,
                   nextId, worldVars>>

SourceHolds ==
    /\ phase = "source"
    /\ \/ Preparing /\ Draft
       \/ Confirming /\ Attempt

(* The cabinet is down or shows something else, authorization was withdrawn,  *)
(* the values are refused, the source changed, or this was sent before.       *)
GiveUp ==
    /\ phase \in {"reading", "source"}
    /\ Release
    /\ UNCHANGED <<hostVars, draftVars, journal, orphans, disk, images, nextId, worldVars>>

-------------------------------------------------------------------------------
(* SubmissionStore._write in the executor: os.replace makes the new journal   *)
(* visible; only the fsync of the directory, after it, makes it durable.      *)
WriteLands ==
    /\ Saving /\ ~landed
    /\ landed' = TRUE /\ disk' = target /\ images' = images \cup {target}
    /\ UNCHANGED <<hostVars, draftVars, journal, taskVars, target, orphans, nextId,
                   worldVars>>

(* async_save returns: the pending record is followed by the POST, any other  *)
(* record ends the operation.  A cancelled task updates nothing in memory.    *)
SaveReturns ==
    /\ Saving /\ landed
    /\ images' = {target}
    /\ IF cancelled
       THEN Release /\ UNCHANGED journal
       ELSE /\ journal' = target
            /\ IF phase = "pending"
               THEN /\ phase' = "token" /\ target' = NotLoaded /\ landed' = FALSE
                    /\ UNCHANGED <<task, record, cancelled>>
               ELSE Release
    /\ UNCHANGED <<hostVars, draftVars, orphans, disk, nextId, worldVars>>

(* async_save raises, before or after the replacement: the journal in memory  *)
(* keeps its old record and the operation ends.                               *)
SaveRaises ==
    /\ Saving
    /\ Release
    /\ UNCHANGED <<hostVars, draftVars, journal, orphans, disk, images, nextId, worldVars>>

-------------------------------------------------------------------------------
(* submit_readings *)
(* The token is there: a last look at the authorization and the membership,   *)
(* with no await up to the POST.                                              *)
PostUnchecked ==                                                   \* mutated
    /\ phase = "token"
    /\ phase' = "post"
    /\ posted' = posted \cup {[id |-> record.id, draft |-> task]}
    /\ UNCHANGED <<hostVars, draftVars, journal, task, record, cancelled, writeVars,
                   nextId, outcome, settled>>

Post ==
    /\ phase = "token"
    /\ Authorized(task.user) /\ task.number \in linked
    /\ phase' = "post"
    /\ posted' = posted \cup {[id |-> record.id, draft |-> task]}
    /\ UNCHANGED <<hostVars, draftVars, journal, task, record, cancelled, writeVars,
                   nextId, outcome, settled>>

(* SubmissionError before the POST: recorded as not sent.                     *)
Refuse ==
    /\ phase = "token"
    /\ ~Authorized(task.user) \/ task.number \notin linked \/ task.source
    /\ SaveLast(journal, task.number, [record EXCEPT !.status = "not_sent"])
    /\ UNCHANGED <<hostVars, draftVars, journal, orphans, disk, images, nextId, worldVars>>

TokenFailsNewStatus ==                                             \* mutated
    /\ phase = "token"
    /\ SaveLast(journal, task.number, [record EXCEPT !.status = "token_failed"])
    /\ UNCHANGED <<hostVars, draftVars, journal, orphans, disk, images, nextId, worldVars>>

(* AccountError from the token renewal: nothing is inferred.                  *)
TokenFails ==
    /\ phase = "token"
    /\ SaveLast(journal, task.number, [record EXCEPT !.status = "unknown"])
    /\ UNCHANGED <<hostVars, draftVars, journal, orphans, disk, images, nextId, worldVars>>

(* A definite reply settles the attempt; an unclear one settles nothing.      *)
ReplyArrives ==
    /\ phase = "post" /\ outcome[record.id] # NoOutcome
    /\ \E verdict \in Conclusions[outcome[record.id]] :
          /\ SaveLast(journal, task.number, [record EXCEPT !.status = verdict])
          /\ settled' = IF verdict \in {"accepted", "rejected"}
                        THEN settled \cup {record.id} ELSE settled
    /\ UNCHANGED <<hostVars, draftVars, journal, orphans, disk, images, nextId,
                   posted, outcome>>

ReplyLostMeansNotSent ==                                           \* mutated
    /\ phase = "post"
    /\ SaveLast(journal, task.number, [record EXCEPT !.status = "not_sent"])
    /\ UNCHANGED <<hostVars, draftVars, journal, orphans, disk, images, nextId, worldVars>>

(* Timeout, broken connection, an HTTP error or an undecodable body.          *)
ReplyLost ==
    /\ phase = "post"
    /\ SaveLast(journal, task.number, [record EXCEPT !.status = "unknown"])
    /\ UNCHANGED <<hostVars, draftVars, journal, orphans, disk, images, nextId, worldVars>>

-------------------------------------------------------------------------------
(* acknowledge: the user has looked into the cabinet and says so of one id.   *)
Acknowledge(user, number, id) ==
    LET old == Loaded[number]
    IN  /\ MayEnter
        /\ Authorized(user)
        /\ old.id = id /\ Unresolved(old)
        /\ journal' = Loaded
        /\ SaveLast(Loaded, number, [old EXCEPT !.status = "acknowledged"])
        /\ settled' = settled \cup {id}
        /\ UNCHANGED <<hostVars, draftVars, orphans, disk, images, nextId, posted, outcome>>

-------------------------------------------------------------------------------
(* The world around the manager.                                              *)

(* The cabinet handles a POST, at any time after it was sent and also after   *)
(* the program stopped waiting for it.                                        *)
CabinetHandles ==
    /\ \E post \in posted : \E result \in Outcomes :
          /\ outcome[post.id] = NoOutcome
          /\ outcome' = [outcome EXCEPT ![post.id] = result]
    /\ UNCHANGED <<hostVars, draftVars, journal, taskVars, writeVars, nextId, posted,
                   settled>>

(* A task is cancelled where it awaits.  A write is shielded: the task waits  *)
(* for its end before it gives up the lock.                                   *)
Cancel ==
    /\ phase # "free" /\ ~cancelled
    /\ IF Saving
       THEN /\ cancelled' = TRUE
            /\ UNCHANGED <<phase, task, record, target, landed>>
       ELSE Release
    /\ UNCHANGED <<hostVars, draftVars, journal, orphans, disk, images, nextId, worldVars>>

(* A second cancellation interrupts the wait inside the handler of the first: *)
(* the lock is released and the executor job runs on alone.                   *)
CancelAgain ==
    /\ RepeatedCancel /\ cancelled
    /\ orphans' = IF landed THEN orphans ELSE orphans \cup {target}
    /\ Release
    /\ UNCHANGED <<hostVars, draftVars, journal, disk, images, nextId, worldVars>>

OrphanLands ==
    /\ \E old \in orphans :
          /\ orphans' = orphans \ {old}
          /\ disk' = old /\ images' = images \cup {old}
    /\ UNCHANGED <<hostVars, draftVars, journal, taskVars, target, landed, nextId,
                   worldVars>>

(* Home Assistant stops dead and starts again; after a power failure the file *)
(* holds any of the journals not yet made durable.                            *)
Restart ==
    /\ entry' = "loaded" /\ journal' = NotLoaded /\ drafts' = {} /\ orphans' = {}
    /\ Release
    /\ UNCHANGED <<admins, linked, nextToken, nextId, worldVars>>

Crash == Restart /\ UNCHANGED <<disk, images>>

PowerFails == Restart /\ \E image \in images : disk' = image /\ images' = {image}

(* Administrators come and go, accounts are linked and unlinked in the        *)
(* cabinet and the client's list of them is refreshed by other tasks.         *)
Authorize ==
    /\ \E users \in SUBSET Revocable : admins' = Users \ users
    /\ UNCHANGED <<entry, linked, draftVars, journal, taskVars, writeVars, nextId,
                   worldVars>>

Relink ==
    /\ \E numbers \in SUBSET Unlinkable : linked' = Accounts \ numbers
    /\ UNCHANGED <<entry, admins, draftVars, journal, taskVars, writeVars, nextId,
                   worldVars>>

(* async_unload_entry: the entry leaves the state LOADED, close() first marks *)
(* the manager closed, then waits for the lock and drops the drafts.          *)
BeginUnload ==
    /\ entry = "loaded" /\ entry' = "unloading"
    /\ UNCHANGED <<admins, linked, draftVars, journal, taskVars, writeVars, nextId,
                   worldVars>>

BeginClose ==
    /\ entry = "unloading" /\ entry' = "closing"
    /\ UNCHANGED <<admins, linked, draftVars, journal, taskVars, writeVars, nextId,
                   worldVars>>

FinishClose ==
    /\ entry = "closing" /\ phase = "free"
    /\ entry' = "unloaded" /\ drafts' = {}
    /\ UNCHANGED <<admins, linked, nextToken, journal, taskVars, writeVars, nextId,
                   worldVars>>

SetUp ==
    /\ entry = "unloaded"
    /\ entry' = "loaded" /\ journal' = NotLoaded /\ drafts' = {}
    /\ UNCHANGED <<admins, linked, nextToken, taskVars, writeVars, nextId, worldVars>>

-------------------------------------------------------------------------------
Prepare ==
    \E request \in Requests : PrepareBegin(request)

Confirm == \E draft \in drafts : ConfirmBegin(draft)

Unlock == \E user \in Users, number \in Accounts, id \in Ids :
              Acknowledge(user, number, id)

(* What the manager's own task does next, once whatever it awaits is there.   *)
Proceed ==
    \/ PrepareRead \/ ConfirmRead \/ ReadThenSource \/ SourceHolds \/ GiveUp
    \/ WriteLands \/ SaveReturns \/ SaveRaises
    \/ Post \/ Refuse \/ TokenFails \/ ReplyArrives \/ ReplyLost

Environment ==
    \/ CabinetHandles \/ Cancel \/ CancelAgain \/ OrphanLands \/ Crash \/ PowerFails
    \/ Authorize \/ Relink \/ BeginUnload \/ BeginClose \/ FinishClose \/ SetUp

Next ==
    \/ LastAttempt \/ Inspect \/ ExpireDraft \/ Prepare \/ Confirm \/ Unlock
    \/ Proceed
    \/ Environment

Spec == Init /\ [][Next]_vars

(* Every await of the manager ends: requests have a timeout and executor jobs *)
(* finish; the event loop runs a task that is ready, and hands a free lock to *)
(* the one that waits for it.                                                 *)
FairSpec == Spec /\ WF_vars(Proceed) /\ WF_vars(FinishClose)

-------------------------------------------------------------------------------
(* Properties *)

TypeOK ==
    /\ entry \in {"loaded", "unloading", "closing", "unloaded"}
    /\ admins \subseteq Users /\ linked \subseteq Accounts
    /\ drafts \subseteq Drafts /\ nextToken \in Nat
    /\ journal \in Journals \cup {NotLoaded}
    /\ phase \in Phases /\ task \in Drafts \cup {NoTask} /\ record \in Records
    /\ cancelled \in BOOLEAN /\ landed \in BOOLEAN
    /\ target \in Journals \cup {NotLoaded}
    /\ orphans \subseteq Journals /\ disk \in Journals /\ images \subseteq Journals
    /\ nextId \in Nat
    /\ posted \subseteq [id : Ids, draft : Drafts]
    /\ outcome \in [Ids -> Outcomes \cup {NoOutcome}]
    /\ settled \subseteq Ids

(* Attempts of an account that were sent and that nobody has settled.         *)
Open(number) ==
    {post.id : post \in {p \in posted : p.draft.number = number /\ p.id \notin settled}}

Guards(j) ==
    \A post \in posted :
        post.id \notin settled =>
            /\ j[post.draft.number].id = post.id
            /\ Unresolved(j[post.draft.number])

(* An attempt that was sent and not settled keeps its account blocked in the  *)
(* journal in memory and in whatever the file may hold, after a crash or a    *)
(* power failure too ("It survives restart; an interrupted request remains    *)
(* unresolved", docs/ENERGY_AND_READINGS.md).                                 *)
DurableBarrier ==
    /\ journal # NotLoaded => Guards(journal)
    /\ Guards(disk)
    /\ \A image \in images : Guards(image)

(* The last record of an account says accepted or rejected only of a POST     *)
(* that the cabinet accepted or rejected for every zone, and not_sent only of *)
(* one that never left, in memory and on disk.                                *)
Truthful(j) ==
    \A number \in Accounts :
        LET rec == j[number] IN
        /\ rec.status = "accepted" => outcome[rec.id] = [z \in Zones |-> "SUCCESS"]
        /\ rec.status = "rejected" => outcome[rec.id] = [z \in Zones |-> "ERROR"]
        /\ rec.status = "not_sent" => \A post \in posted : post.id # rec.id

TruthfulJournal ==
    /\ journal # NotLoaded => Truthful(journal)
    /\ \A image \in images \cup {disk} : Truthful(image)

(* A confirmation permits at most one POST, however confirmations, crashes    *)
(* and failed saves interleave ("every confirmation permits at most one       *)
(* attempt", confirm()).                                                      *)
OneAttemptPerConfirmation ==
    \A one, other \in posted : one.draft.token = other.draft.token => one = other

(* The drafts kept in memory are no more than allowed, and a user has at most *)
(* one per account.                                                           *)
FewDrafts ==
    /\ Cardinality(drafts) <= DraftLimit
    /\ \A d, e \in drafts : d.number = e.number /\ d.user = e.user => d = e

(* They also stay within the memory allowed to their photos.                  *)
DraftBudget == FewDrafts /\ MapThenSumSet(PhotoBytes, drafts) <= PhotoBudget

(* A POST leaves only while its user is still an administrator, the entry is  *)
(* loaded and the account is linked, although storage and the token renewal   *)
(* yield after the draft was authorized.                                      *)
AuthorizedSend ==
    [][posted' # posted =>
          \A post \in posted' \ posted :
              /\ entry = "loaded" /\ post.draft.user \in admins
              /\ post.draft.number \in linked]_vars

(* The abstract promise: one unsettled request per account, none sent twice.  *)
Barrier == INSTANCE DeliveryBarrier WITH
    Attempts    <- Ids,
    outstanding <- [n \in Accounts |-> Open(n)],
    sent        <- {post.id : post \in posted}

KeepsBarrier == Barrier!Spec

(* Whoever holds the lock releases it: no wait of an operation is endless.    *)
LockFreed == phase # "free" ~> phase = "free"

(* Closing the manager ends, whatever operations run or still try to start.   *)
CloseCompletes == entry = "closing" ~> entry # "closing"
===============================================================================
