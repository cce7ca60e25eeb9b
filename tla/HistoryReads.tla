------------------------------ MODULE HistoryReads ------------------------------
(* The dated records of an account and their cache (account_history.py), the  *)
(* cards and bots that read them (account_history_api.py, bot_api.py,         *)
(* account_analysis.py) and the submissions that make what is cached old      *)
(* (account_submission_api.py).  Only one read is under way for a connection; *)
(* a confirmation is answered without waiting for it.                         *)
EXTENDS Integers, SequencesExt, FiniteSetsExt

CONSTANTS
    Accounts,       \* selected accounts of one connection
    Readers,        \* requests of browsers and bots that overlap
    MaxAttempts,    \* bound: submissions
    CacheSize,      \* 16 in the code
    LimitSize,      \* 64 in the code
    NoRead, NoPost, NoAttempt

Years    == {"this", "previous"}
Keys     == Accounts \X Years
Attempts == 1..MaxAttempts

(* Age of what is cached: under a minute, under six hours, older.             *)
Ages == 0..2

Results == [id : Attempts, accepted : BOOLEAN]     \* of attempts, in the journal
Posts   == [number : Accounts, id : Attempts, handled : BOOLEAN]
Reads   == [by : Readers, key : Keys, generation : 0..MaxAttempts,
            rows : SUBSET Attempts, pages : 0..1]

ASSUME HistoryAssumption ==
    /\ {CacheSize, LimitSize, MaxAttempts} \subseteq Nat \ {0}
    /\ NoRead \notin Reads /\ NoPost \notin Posts /\ NoAttempt \notin Results

VARIABLES
    book,       \* the submissions the cabinet has recorded: external
    late,       \* those it will perhaps still record: external
    post,       \* confirm() between its POST and the answer
    journal,    \* the last attempt of each account
    answered,   \* ghost: what was recorded when confirm() last returned
    sent,
    cache,      \* HistoryCache._cache: an OrderedDict, oldest use first
    recent,     \* _attempts of the last minute, oldest first
    blocked,    \* _blocked_until is ahead
    generation, \* _generation
    read,       \* the read that holds _lock
    op,         \* what each reader is doing
    allowed     \* the user may read the account's entities

cacheVars  == <<cache, recent, blocked, generation, read>>
submitVars == <<book, late, post, journal, answered, sent>>
vars == <<submitVars, cacheVars, op, allowed>>

Idle  == [kind |-> "idle"]     \* none yet, or it failed
Shown == [kind |-> "shown"]    \* the last request was answered

Init ==
    /\ book = [n \in Accounts |-> {}] /\ late = {} /\ post = NoPost
    /\ journal = [n \in Accounts |-> NoAttempt]
    /\ answered = [n \in Accounts |-> {}] /\ sent = 0
    /\ cache = <<>> /\ recent = <<>> /\ blocked = FALSE /\ generation = 0
    /\ read = NoRead
    /\ op = [r \in Readers |-> Idle]
    /\ allowed = TRUE

-------------------------------------------------------------------------------
(* Submissions, as far as the history sees them *)

(* confirm() has recorded the attempt and sends it.                           *)
Confirm(n) ==
    /\ post = NoPost /\ sent < MaxAttempts
    /\ sent' = sent + 1
    /\ post' = [number |-> n, id |-> sent + 1, handled |-> FALSE]
    /\ UNCHANGED <<book, late, journal, answered, cacheVars, op, allowed>>

Record(n, id) == book' = [book EXCEPT ![n] = @ \cup {id}]

Handle ==
    /\ post # NoPost /\ ~post.handled
    /\ Record(post.number, post.id) /\ post' = [post EXCEPT !.handled = TRUE]
    /\ UNCHANGED <<late, journal, answered, sent, cacheVars, op, allowed>>

(* The key is deleted, if it is there.                                        *)
Without(s, key) ==
    IF \E i \in DOMAIN s : s[i].key = key
    THEN RemoveAt(s, CHOOSE i \in DOMAIN s : s[i].key = key)
    ELSE s

(* No entry of the account is left.                                           *)
Forgotten(n) == Without(Without(cache, <<n, "this">>), <<n, "previous">>)

InvalidateQuietly(n) == cache' = Forgotten(n) /\ UNCHANGED generation      \* mutated

InvalidateOnlyMarks(n) == generation' = generation + 1 /\ UNCHANGED cache  \* mutated

(* invalidate()                                                               *)
Invalidate(n) ==
    /\ generation' = generation + 1
    /\ cache' = Forgotten(n)

(* confirm() returns: accepted, or unknown because the answer was lost and    *)
(* perhaps the request too.                                                   *)
Answered(accepted) ==
    /\ post # NoPost /\ (accepted => post.handled)
    /\ journal' = [journal EXCEPT ![post.number] = [id |-> post.id, accepted |-> accepted]]
    /\ answered' = [answered EXCEPT ![post.number] = book[post.number]]
    /\ late' = IF post.handled THEN late ELSE late \cup {<<post.number, post.id>>}
    /\ Invalidate(post.number)
    /\ post' = NoPost
    /\ UNCHANGED <<book, sent, recent, blocked, read, op, allowed>>

HandledLate ==
    \E p \in late :
        /\ Record(p[1], p[2]) /\ late' = late \ {p}
        /\ UNCHANGED <<post, journal, answered, sent, cacheVars, op, allowed>>

-------------------------------------------------------------------------------
(* HistoryCache.get *)

(* A result without its monthly part is shown for a minute at most.           *)
Usable(e, o) == ~o.force /\ e.age < (IF e.partial THEN 1 ELSE o.maxAge)

Key(o) == <<o.number, Head(o.todo)>>

(* The reader has a result; only a readback looks into it.                    *)
Took(o, rows) ==
    [o EXCEPT !.todo = Tail(@),
              !.rows = IF o.attempt # NoAttempt /\ Head(o.todo) = "this" THEN rows ELSE @]

LastOfOneMore(s, size) == SubSeq(s, Max({1, Len(s) - size}), Len(s)) \* mutated

(* popitem(last=False) while there are too many.                              *)
LastOf(s, size) == SubSeq(s, Max({1, Len(s) - size + 1}), Len(s))

Waiting(r) == op[r] \notin {Idle, Shown} /\ op[r].todo # <<>> /\ op[r].live

(* The lock is free and the result is cached, limited or asked for.           *)
Get(r) ==
    LET o == op[r]
        k == Key(o)
        hits == {i \in DOMAIN cache : cache[i].key = k /\ Usable(cache[i], o)}
    IN  /\ Waiting(r) /\ read = NoRead
        /\ \/ \E i \in hits :
                /\ cache' = Append(RemoveAt(cache, i), cache[i])
                /\ op' = [op EXCEPT ![r] = Took(o, cache[i].rows)]
                /\ UNCHANGED <<recent, read>>
           \/ /\ hits = {} /\ UNCHANGED cache
              /\ IF blocked \/ k \in Range(recent)
                 THEN op' = [op EXCEPT ![r] = Idle] /\ UNCHANGED <<recent, read>>
                 ELSE /\ recent' = LastOf(Append(recent, k), LimitSize)
                      /\ read' = [by |-> r, key |-> k, generation |-> generation,
                                  rows |-> {}, pages |-> 0]
                      /\ UNCHANGED op
        /\ UNCHANGED <<submitVars, blocked, generation, allowed>>

(* The cabinet answers a page; what is submitted now is of this year.  A      *)
(* record that is missing on the first page is missing in the result.         *)
Page ==
    /\ read # NoRead /\ read.pages = 0
    /\ read' = [read EXCEPT !.pages = @ + 1,
                            !.rows = IF read.key[2] = "this"
                                     THEN book[read.key[1]] ELSE @]
    /\ UNCHANGED <<submitVars, cache, recent, blocked, generation, op, allowed>>

(* read_history returns: another generation makes it void.                    *)
Complete(partial) ==
    LET r == read.by
    IN  /\ read # NoRead /\ read.pages = 1
        /\ IF read.generation # generation
           THEN op' = [op EXCEPT ![r] = Idle] /\ UNCHANGED cache
           ELSE /\ cache' = LastOf(Append(Without(cache, read.key),
                                      [key |-> read.key, rows |-> read.rows,
                                       partial |-> partial, age |-> 0]), CacheSize)
                /\ op' = [op EXCEPT ![r] = Took(@, read.rows)]
        /\ read' = NoRead
        /\ UNCHANGED <<submitVars, recent, blocked, generation, allowed>>

BrokenKeepsLock(limited) ==                                        \* mutated
    /\ read # NoRead
    /\ blocked' = (blocked \/ limited) /\ op' = [op EXCEPT ![read.by] = Idle]
    /\ UNCHANGED <<submitVars, cache, recent, generation, read, allowed>>

(* It raises: pages that do not fit together, foreign or repeated records, no *)
(* connection, no login; or the cabinet asks for a pause.                     *)
Broken(limited) ==
    /\ read # NoRead
    /\ blocked' = (blocked \/ limited)
    /\ op' = [op EXCEPT ![read.by] = Idle] /\ read' = NoRead
    /\ UNCHANGED <<submitVars, cache, recent, generation, allowed>>

(* Time: a minute since a read was tried, since it ended, six hours, the      *)
(* pause.  After its minute a partial result is as good as one of six hours.  *)
MinutePassed ==
    /\ recent # <<>> /\ recent' = Tail(recent)
    /\ UNCHANGED <<submitVars, cache, blocked, generation, read, op, allowed>>

Aged ==
    /\ \E i \in DOMAIN cache :
        /\ cache[i].age < 2 /\ cache[i].key \notin Range(recent)
        /\ cache' = [cache EXCEPT ![i].age = IF cache[i].partial THEN 2 ELSE @ + 1,
                                  ![i].partial = FALSE]
    /\ UNCHANGED <<submitVars, recent, blocked, generation, read, op, allowed>>

PauseEnds ==
    /\ blocked /\ blocked' = FALSE
    /\ UNCHANGED <<submitVars, cache, recent, generation, read, op, allowed>>

-------------------------------------------------------------------------------
(* The readers *)

Begin(r, kind, n, todo, force, maxAge, attempt) ==
    /\ op[r] \in {Idle, Shown} /\ allowed
    /\ op' = [op EXCEPT ![r] = [kind |-> kind, number |-> n, todo |-> todo,
                                force |-> force, maxAge |-> maxAge, attempt |-> attempt, live |-> TRUE,
                                looked |-> FALSE, rows |-> {}]]
    /\ UNCHANGED <<submitVars, cacheVars, allowed>>

(* websocket_history: refreshed by the user, or compared with the year before.*)
AskHistory(r, n) ==
    \/ Begin(r, "card", n, <<"this">>, TRUE, 2, NoAttempt)
    \/ Begin(r, "card", n, <<"this", "previous">>, FALSE, 2, NoAttempt)

(* last_attempt() waits for confirm().                                        *)
AskReadback(r, n) ==
    post = NoPost /\ Begin(r, "card", n, <<"this">>, TRUE, 2, journal[n])

(* The bot's history, and its readback of the attempt.                        *)
AskBot(r, n) ==
    /\ post = NoPost
    /\ \E attempt \in {NoAttempt, journal[n]} : Begin(r, "bot", n, <<"this">>, FALSE, 1, attempt)

Finished(r) == op[r] \notin {Idle, Shown} /\ op[r].todo = <<>>

(* This year may be empty: the bot shows the one before, and returns to this  *)
(* year for the attempt.                                                      *)
BotLooksBack(r) ==
    LET o == op[r]
    IN  /\ Finished(r) /\ o.kind = "bot" /\ ~o.looked /\ o.rows = {}
        /\ allowed /\ o.live
        /\ op' = [op EXCEPT ![r].looked = TRUE,
                            ![r].todo = IF o.attempt = NoAttempt THEN <<"previous">>
                                        ELSE <<"previous", "this">>]
        /\ UNCHANGED <<submitVars, cacheVars, allowed>>

(* match_readback: is the attempt among the records?                          *)
Verdict(attempt, rows) ==
    IF attempt = NoAttempt THEN "no_attempt"
    ELSE IF attempt.id \in rows THEN "matched" ELSE "not_found"

Accepted(attempt) == attempt # NoAttempt /\ attempt.accepted

DeliverUnchecked(r) ==                                             \* mutated
    /\ Finished(r) /\ op' = [op EXCEPT ![r] = Shown]
    /\ UNCHANGED <<submitVars, cacheVars, allowed>>

(* The result is there: the user's rights and the connection are looked at    *)
(* again.                                                                     *)
Deliver(r) ==
    /\ Finished(r)
    /\ op' = [op EXCEPT ![r] = IF allowed /\ @.live THEN Shown ELSE Idle]
    /\ UNCHANGED <<submitVars, cacheVars, allowed>>

(* The request goes on with the cache of a connection that was unloaded, and  *)
(* gets a result of it or none.                                               *)
Outlived(r) ==
    LET o == op[r]
    IN  /\ o \notin {Idle, Shown} /\ o.todo # <<>> /\ ~o.live
        /\ \E rows \in SUBSET book[o.number] :
              op' \in {[op EXCEPT ![r] = Idle], [op EXCEPT ![r] = Took(o, rows)]}
        /\ UNCHANGED <<submitVars, cacheVars, allowed>>

-------------------------------------------------------------------------------
(* Outside *)

(* An administrator changes the user's rights, or entities are disabled.      *)
RightsChange ==
    /\ allowed' = ~allowed
    /\ UNCHANGED <<submitVars, cacheVars, op>>

(* The entry is loaded again, once confirm() has left its lock: new caches,   *)
(* and the requests under way go on with the old ones.                        *)
Reload ==
    /\ post = NoPost
    /\ op' = [r \in Readers |->
                IF op[r] \in {Idle, Shown} THEN op[r] ELSE [op[r] EXCEPT !.live = FALSE]]
    /\ cache' = <<>> /\ recent' = <<>> /\ blocked' = FALSE /\ generation' = 0
    /\ read' = NoRead
    /\ UNCHANGED <<submitVars, allowed>>

Next ==
    \/ \E n \in Accounts :
          \/ Confirm(n)
          \/ \E r \in Readers : AskHistory(r, n) \/ AskReadback(r, n) \/ AskBot(r, n)
    \/ Handle \/ HandledLate \/ \E a \in BOOLEAN : Answered(a)
    \/ \E r \in Readers : Get(r) \/ BotLooksBack(r) \/ Deliver(r) \/ Outlived(r)
    \/ Page \/ \E b \in BOOLEAN : Complete(b) \/ Broken(b)
    \/ MinutePassed \/ Aged \/ PauseEnds \/ RightsChange \/ Reload

Spec == Init /\ [][Next]_vars

(* A request to the cabinet ends, at the latest with its timeout; the tasks   *)
(* of the event loop run; and asyncio.Lock wakes those that wait in the order *)
(* they came, so that none is passed over for ever.                           *)
FairSpec ==
    /\ Spec
    /\ WF_vars(Broken(FALSE) \/ Complete(FALSE))
    /\ \A r \in Readers :
          /\ SF_vars(Get(r))
          /\ WF_vars(Deliver(r) \/ BotLooksBack(r)) /\ WF_vars(Outlived(r))

-------------------------------------------------------------------------------
(* The caches keep to their sizes and to one entry per key.                   *)
TypeOK ==
    /\ book \in [Accounts -> SUBSET Attempts] /\ late \subseteq Accounts \X Attempts
    /\ sent \in 0..MaxAttempts /\ generation \in 0..MaxAttempts
    /\ Len(cache) <= CacheSize /\ Len(recent) <= LimitSize
    /\ \A i, j \in DOMAIN cache : cache[i].key = cache[j].key => i = j
    /\ \A e \in Range(cache) : e.key \in Keys /\ e.age \in Ages /\ e.rows \subseteq Attempts
    /\ Range(recent) \subseteq Keys
    /\ {allowed, blocked} \subseteq BOOLEAN

(* r is answered with a result.                                               *)
Shows(r) == Finished(r) /\ op'[r] = Shown

(* "Do not let a cached history look like a post-submission verification":    *)
(* whatever is cached has every record the cabinet had when confirm() last    *)
(* returned for the account, even when the read began before it and ended     *)
(* after it (account_history.py:240, account_submission_api.py:148).          *)
CacheIsAfterSubmission ==
    TypeOK /\ \A e \in Range(cache) : e.key[2] = "this" => answered[e.key[1]] \subseteq e.rows

(* A readback, by a card or by a bot with its one-minute cache, never says of *)
(* an accepted attempt that the cabinet has no record of it                   *)
(* (account_history_api.py:437, bot_api.py:288).  Assumed of the cabinet: it  *)
(* shows a record by the time it answers the submission.  It may take longer  *)
(* (docs/ENERGY_AND_READINGS.md:132); then the attempt has no match yet, and  *)
(* what is claimed is that nothing cached here adds to that delay.            *)
(* And what was read while the connection was reloaded or the user lost the   *)
(* right to read the account is not shown (account_history_api.py:374).       *)
TruthfulReadback ==
    [][\A r \in Readers :
         Shows(r) =>
           /\ Verdict(op[r].attempt, op[r].rows) = "not_found" => ~Accepted(op[r].attempt)
           /\ allowed /\ op[r].live]_vars

(* Every request ends, with a result or an error, though its several reads    *)
(* wait for a lock that other requests keep taking, reads fail, a submission  *)
(* makes a result void, the connection is loaded again under the request, and *)
(* a bot that finds the year empty reads another (account_history.py:213,     *)
(* bot_api.py:270).                                                           *)
RequestsEnd == \A r \in Readers : []<>(op[r] \in {Idle, Shown})
===============================================================================
