----------------------------- MODULE PublicWebsite -----------------------------
(* The client of an operator's website (dtek_client.py) and the adapter that  *)
(* makes verified schedules of its answers (dtek_provider.py), for one        *)
(* address: browser sessions and their CSRF token behind a bot protection,    *)
(* retries, and the schedule put together from the page, the previous poll    *)
(* and the parts that changed since.  Requests pass a gate one at a time      *)
(* (PublicRequests); the refreshes that make them may overlap.                *)
EXTENDS Integers, FiniteSetsExt

CONSTANTS
    Refreshes,      \* {"timer", "user"}
    MaxVersion,     \* bound: versions the website publishes
    MaxMalformed,   \* bound: malformed answers
    NoOp

Attempts == 3       \* _PAGE_RETRY_ATTEMPTS

Jars == 1..3

(* Versions of the two parts of a schedule, a preset's being that of the facts *)
(* it was published with.  0: the part is missing.  Of facts there may be     *)
(* only the groups: Garbled without their timestamp, Undated if the presets   *)
(* do not name it either.                                                     *)
Missing == 0
Garbled == -1
Undated == -2
Nothing   == [fact |-> Missing, preset |-> Missing]
Schedules == [fact : 1..MaxVersion, preset : 1..MaxVersion]
Parts     == [fact : Undated..MaxVersion, preset : Missing..MaxVersion]

VARIABLES
    site,       \* the schedule the website publishes: external
    http,       \* DTEKClient._http, as the cookie jar it has; 0: None
    token,      \* the jar with which _csrf_token was issued; 0: None, or too old
    cached,     \* DTEKClient._schedule_data
    op,         \* the operation that has the gate
    stage,      \* of each refresh: "idle", "house" or "update"
    reading,    \* the address was read
    candidate,  \* the schedule under verification
    raw,        \* DTEKWebProvider._raw
    verdict,    \* how the last refresh to end did
    overtaken,  \* ghost: presets unknown here when a house's answer told their
                \* facts, or newer ones, without them
    closed, malformed

clientVars  == <<http, token, cached>>
refreshVars == <<stage, reading, candidate, raw, verdict>>
worldVars   == <<site, overtaken, closed, malformed>>
vars == <<worldVars, clientVars, op, refreshVars>>

Init ==
    /\ site = [fact |-> 1, preset |-> 1]
    /\ http = 0 /\ token = 0
    /\ cached = Nothing /\ op = NoOp
    /\ stage = [r \in Refreshes |-> "idle"] /\ reading = [r \in Refreshes |-> FALSE]
    /\ candidate = [r \in Refreshes |-> Nothing] /\ raw = Nothing
    /\ verdict = "failed"
    /\ overtaken = {} /\ closed = FALSE /\ malformed = 0

-------------------------------------------------------------------------------
(* Sessions *)

(* A jar that nothing refers to any more.                                     *)
Fresh == Min(Jars \ ({token} \cup {o.jar : o \in {op} \ {NoOp}}))

(* _ensure_http, and _recycle_connection, which keeps the cookies it finds.   *)
EnsureHttp == http' = IF http = 0 THEN Fresh ELSE http

(* _refresh_session up to its first request, _load_shutdowns_page.            *)
LoadPage(by, retry, posts) ==
    /\ EnsureHttp /\ token' = 0
    /\ op' = [by |-> by, step |-> "page", attempt |-> 1, jar |-> http',
              retry |-> retry, posts |-> posts]
    /\ UNCHANGED cached

SendPost(by, retry, posts) ==
    /\ EnsureHttp
    /\ op' = [by |-> by, step |-> "post", attempt |-> 0, jar |-> http',
              retry |-> retry, posts |-> posts + 1]

(* _post_unlocked: _ensure_session and the request.                           *)
Post(by, retry, posts) ==
    IF token # 0
    THEN SendPost(by, retry, posts) /\ UNCHANGED <<token, cached>>
    ELSE LoadPage(by, retry, posts)

-------------------------------------------------------------------------------
(* refresh() *)

Newer(part, default) == IF part = Missing THEN default ELSE part

(* candidate.update(part): what is there replaces what was.                   *)
Updated(old, new) ==
    [fact |-> Newer(new.fact, old.fact), preset |-> Newer(new.preset, old.preset)]

(* fact.update, or else preset.updateFact; 0: freshness cannot be verified.   *)
Stamp(schedule) ==
    CASE schedule.fact = Undated -> 0
      [] schedule.fact = Garbled -> schedule.preset
      [] OTHER -> schedule.fact

Finish(r, how) ==
    /\ stage' = [stage EXCEPT ![r] = "idle"] /\ verdict' = how
    /\ reading' = [reading EXCEPT ![r] = FALSE]
    /\ candidate' = [candidate EXCEPT ![r] = Nothing]

(* The schedule known so far is put together, of two parts; what the answer   *)
(* about the house tells of it replaces them, if the address could be read;   *)
(* and the website is asked what is newer than the timestamp.                 *)
Merge(r, read, told) ==
    LET known  == Updated(raw, cached)
        merged == IF read THEN Updated(known, told) ELSE known
    IN  /\ op' = NoOp /\ UNCHANGED raw
        /\ IF Missing \in {known.fact, known.preset} \/ Stamp(merged) = 0
           THEN Finish(r, "failed")
           ELSE /\ stage' = [stage EXCEPT ![r] = "update"]
                /\ candidate' = [candidate EXCEPT ![r] = merged]
                /\ reading' = [reading EXCEPT ![r] = read]
                /\ UNCHANGED verdict

FailedKeepsGate(r) ==                                              \* mutated
    IF stage[r] = "house" THEN Merge(r, FALSE, Nothing)
    ELSE op' = op /\ Finish(r, "failed") /\ UNCHANGED raw

(* A request of the refresh fails: ProviderError, caught for each part.       *)
Failed(r) ==
    IF stage[r] = "house" THEN Merge(r, FALSE, Nothing)
    ELSE op' = NoOp /\ Finish(r, "failed") /\ UNCHANGED raw

Start(r) ==
    /\ stage[r] = "idle" /\ ~closed
    /\ stage' = [stage EXCEPT ![r] = "house"] /\ verdict' = "failed"
    /\ UNCHANGED <<worldVars, clientVars, op, reading, candidate, raw>>

(* The gate lets the operation pass, or turns it away in a cooldown.          *)
Enter(r) ==
    /\ op = NoOp /\ stage[r] # "idle"
    /\ Post(r, TRUE, 0)
    /\ UNCHANGED <<worldVars, refreshVars>>

TurnedAway(r) ==
    /\ op = NoOp /\ stage[r] # "idle"
    /\ Failed(r)
    /\ UNCHANGED <<worldVars, clientVars>>

-------------------------------------------------------------------------------
(* The page *)
Loading == op # NoOp /\ op.step = "page"
Posting == op # NoOp /\ op.step = "post"

NextPage ==
    /\ EnsureHttp
    /\ op' = [op EXCEPT !.attempt = @ + 1, !.jar = http']
    /\ UNCHANGED <<token, cached>>

(* A broken connection: a new one with the same cookies, and in time another  *)
(* browser profile.                                                           *)
PageBreaks ==
    /\ Loading
    /\ IF op.attempt >= Attempts
       THEN Failed(op.by) /\ UNCHANGED clientVars
       ELSE NextPage /\ UNCHANGED refreshVars
    /\ UNCHANGED worldVars

(* The protection's stub: the next request with its cookies usually passes;   *)
(* after a hard block on the last attempt the cookies are dropped.            *)
PageChallenged(hard) ==
    /\ Loading
    /\ IF op.attempt >= Attempts
       THEN /\ Failed(op.by)
            /\ http' = IF hard THEN 0 ELSE http
            /\ UNCHANGED <<token, cached>>
       ELSE NextPage /\ UNCHANGED refreshVars
    /\ UNCHANGED worldVars

(* An HTTP error, or a page without a token.                                  *)
PageFails ==
    /\ Loading /\ Failed(op.by)
    /\ UNCHANGED <<worldVars, clientVars>>

(* What is told of a schedule: all of it, or the facts without a timestamp.   *)
Told(whole) ==
    {[part |-> whole, bad |-> 0]}
        \cup {[part |-> [whole EXCEPT !.fact = groups], bad |-> 1] : groups \in {Garbled, Undated}}

FactsOf(whole)  == [whole EXCEPT !.preset = Missing]
PresetOf(whole) == [whole EXCEPT !.fact = Missing]

(* _parse_schedule_from_html: of the two one may not be found or not be read. *)
OnPage == Told(site) \cup {[part |-> p, bad |-> 1] : p \in {FactsOf(site), PresetOf(site)}}

PageArrives ==
    /\ Loading
    /\ token' = op.jar
    /\ \/ UNCHANGED <<cached, malformed>>
       \/ \E told \in OnPage :
             /\ malformed + told.bad <= MaxMalformed
             /\ cached' = told.part /\ malformed' = malformed + told.bad
    /\ SendPost(op.by, op.retry, op.posts)
    /\ UNCHANGED <<site, overtaken, refreshVars, closed>>

-------------------------------------------------------------------------------
(* The request *)
PostBreaksLosesCookies ==                                          \* mutated
    /\ Posting /\ op.retry
    /\ http' = Fresh
    /\ op' = [op EXCEPT !.retry = FALSE, !.jar = http', !.posts = @ + 1]
    /\ UNCHANGED <<worldVars, token, cached, refreshVars>>

(* A broken connection: once more on a new one, if that may help.             *)
PostBreaks ==
    /\ Posting
    /\ \/ op.retry /\ Post(op.by, FALSE, op.posts) /\ UNCHANGED refreshVars
       \/ Failed(op.by) /\ UNCHANGED clientVars
    /\ UNCHANGED worldVars

RejectedAgain ==                                                   \* mutated
    /\ Posting
    /\ LoadPage(op.by, TRUE, op.posts) /\ UNCHANGED refreshVars
    /\ UNCHANGED worldVars

(* HTTP 400 or the protection instead of an answer: the page once more.       *)
Rejected ==
    /\ Posting
    /\ IF op.retry
       THEN LoadPage(op.by, FALSE, op.posts) /\ UNCHANGED refreshVars
       ELSE Failed(op.by) /\ UNCHANGED clientVars
    /\ UNCHANGED worldVars

(* Any other error, or an answer that is malformed as a whole.                *)
PostFails ==
    /\ Posting /\ Failed(op.by)
    /\ UNCHANGED <<worldVars, clientVars>>

(* The answer about a house need not tell of the schedule, or of all of it.   *)
ForHouse ==
    Told(site) \cup Told(FactsOf(site))
        \cup {[part |-> p, bad |-> 0] : p \in {Nothing, PresetOf(site)}}

(* get_home_status and normalize_address, which may fail and tell nothing.    *)
HouseAnswered ==
    /\ Posting /\ stage[op.by] = "house"
    /\ \E read \in BOOLEAN, told \in ForHouse :
          /\ read \/ told.part = Nothing
          /\ malformed' = malformed + told.bad /\ malformed' <= MaxMalformed
          /\ Merge(op.by, read, told.part)
          /\ overtaken' = overtaken \cup
                {p \in {site.preset} : /\ stage'[op.by] = "update" /\ told.part.fact # Missing
                                      /\ candidate'[op.by].preset # p}
    /\ UNCHANGED <<site, clientVars, closed>>

(* checkDisconUpdate: the parts that changed since.                           *)
Delta(stamp) == IF site.preset > stamp THEN site ELSE FactsOf(site)

(* check_update and the rest of refresh(), without an await: only what could  *)
(* be verified as a whole becomes the base of the next poll.  The timestamp   *)
(* is looked at with the address.                                             *)
Verify(r, schedule, sound) ==
    /\ op' = NoOp
    /\ IF sound /\ (reading[r] => Stamp(schedule) # 0)
       THEN raw' = schedule /\ Finish(r, IF reading[r] THEN "verified" ELSE "failed")
       ELSE Finish(r, "failed") /\ UNCHANGED raw

Unsound == IF malformed < MaxMalformed THEN {TRUE, FALSE} ELSE {TRUE}

NoUpdate ==
    /\ Posting /\ stage[op.by] = "update" /\ Stamp(candidate[op.by]) = site.fact
    /\ \E sound \in BOOLEAN : Verify(op.by, candidate[op.by], sound)
    /\ UNCHANGED <<worldVars, clientVars>>

UpdateForgotten ==                                                 \* mutated
    /\ Posting /\ stage[op.by] = "update" /\ Stamp(candidate[op.by]) # site.fact
    /\ cached' = Delta(Stamp(candidate[op.by])) /\ malformed' = malformed
    /\ Verify(op.by, candidate[op.by], TRUE)
    /\ UNCHANGED <<site, overtaken, http, token, closed>>

Update ==
    /\ Posting /\ stage[op.by] = "update" /\ Stamp(candidate[op.by]) # site.fact
    /\ \E told \in Told(Delta(Stamp(candidate[op.by]))), sound \in Unsound :
          /\ malformed + told.bad <= MaxMalformed
          /\ malformed' = IF sound THEN malformed + told.bad ELSE malformed + 1
          /\ cached' = told.part
          /\ Verify(op.by, Updated(candidate[op.by], told.part), sound)
    /\ UNCHANGED <<site, overtaken, http, token, closed>>

-------------------------------------------------------------------------------
(* The world *)
Publish ==
    /\ site.fact < MaxVersion
    /\ \E preset \in {site.preset, site.fact + 1} :
          site' = [fact |-> site.fact + 1, preset |-> preset]
    /\ UNCHANGED <<overtaken, clientVars, op, refreshVars, closed, malformed>>

(* SESSION_MAX_AGE: the token is not used any more.                           *)
Age ==
    /\ token # 0 /\ token' = 0
    /\ UNCHANGED <<worldVars, http, cached, op, refreshVars>>

(* close(), when the entry is unloaded, perhaps under a refresh.              *)
Close ==
    /\ ~closed /\ closed' = TRUE
    /\ http' = 0 /\ token' = 0
    /\ UNCHANGED <<site, overtaken, cached, op, refreshVars, malformed>>

CancelKeepsGate(r) ==                                              \* mutated
    /\ stage[r] # "idle"
    /\ op' = op
    /\ Finish(r, "failed")
    /\ UNCHANGED <<worldVars, clientVars, raw>>

(* The task of a refresh is cancelled: the gate is freed.                     *)
Cancel(r) ==
    /\ stage[r] # "idle"
    /\ op' = IF op # NoOp /\ op.by = r THEN NoOp ELSE op
    /\ Finish(r, "failed")
    /\ UNCHANGED <<worldVars, clientVars, raw>>

Requests ==
    \/ PageBreaks \/ PageFails \/ PageArrives \/ (\E hard \in BOOLEAN : PageChallenged(hard))
    \/ PostBreaks \/ Rejected \/ PostFails \/ HouseAnswered \/ NoUpdate \/ Update

Gate == \E r \in Refreshes : Enter(r) \/ TurnedAway(r)

Next ==
    \/ Requests \/ Gate \/ Publish \/ Age \/ Close
    \/ \E r \in Refreshes : Start(r) \/ Cancel(r)

Spec == Init /\ [][Next]_vars

(* Every request is answered or times out.                                    *)
FairSpec == Spec /\ WF_vars(Requests)

-------------------------------------------------------------------------------
(* Properties *)

TypeOK ==
    /\ site \in Schedules /\ cached \in Parts /\ raw \in Parts
    /\ http \in {0} \cup Jars /\ token \in {0} \cup Jars
    /\ stage \in [Refreshes -> {"idle", "house", "update"}]
    /\ reading \in [Refreshes -> BOOLEAN] /\ candidate \in [Refreshes -> Parts]
    /\ verdict \in {"failed", "verified"}
    /\ op # NoOp => op.by \in Refreshes /\ stage[op.by] # "idle"
    /\ overtaken \subseteq 1..MaxVersion
    /\ closed \in BOOLEAN /\ malformed \in 0..MaxMalformed

(* "Run one bounded AJAX operation": whatever the website answers, one        *)
(* operation sends its request at most twice, and loads the page for it at    *)
(* most twice, each time in at most three attempts.                           *)
Bounded ==
    op # NoOp => /\ op.posts <= 2 /\ op.attempt <= Attempts
                 /\ op.step = "page" => op.posts <= 1

(* So it is for every request, and a token is used with the cookies it was    *)
(* issued with, through recycled connections, changed profiles and dropped    *)
(* cookies.                                                                   *)
RequestsAreSound ==
    [][/\ TypeOK' /\ Bounded'
       /\ Posting' /\ op' # op /\ ~closed => token' = op'.jar]_vars

(* What is verified is what the website publishes when it answers, though the *)
(* parts come from the page, from older polls, from the answer about the      *)
(* house and from the parts that changed since, refreshes overlap and         *)
(* sessions are renewed between the requests of one.  The facts always are    *)
(* the present ones.  An older preset goes with them in one case only: the    *)
(* answer about a house told newer facts without the preset that was there,   *)
(* so that their timestamp hides it (dtek_provider.py:385).  A malformed      *)
(* answer ends this: of two parts, the cache may keep the newer one only.     *)
VerifiedIsCurrent ==
    [][malformed' = 0 =>
          \A r \in Refreshes :
             stage[r] # "idle" /\ stage'[r] = "idle" /\ verdict' = "verified" =>
                 /\ raw'.fact = site.fact
                 /\ raw'.preset = site.preset \/ site.preset \in overtaken]_vars

(* The gate is not kept: every operation ends.                                *)
OperationsEnd == op # NoOp ~> op = NoOp
===============================================================================
