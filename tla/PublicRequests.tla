---------------------------- MODULE PublicRequests ----------------------------
(* PublicRequestGate (public_requests.py): all public requests to one         *)
(* operator, from every address, setup dialog and reload, pass one queue, are *)
(* spaced, and share the pause that a failure calls for.                      *)
(*                                                                            *)
(* The code keeps instants of a monotonic clock; here each is the time left   *)
(* until it.  Time passes only while every task waits for it: the event       *)
(* loop's own steps take no time.                                             *)
EXTENDS Integers, Sequences, FiniteSetsExt, SequencesExt

CONSTANTS
    Callers,        \* tasks that call run()
    Base,           \* the pause after one failure: 60 s
    Cap,            \* the longest pause without a hint: 600 s
    HintCap,        \* the longest pause a server may ask for: 3600 s
    Hints,          \* Retry-After values of the server
    Spacing,        \* between two operations: 1 s
    MaxDuration,    \* the timeouts of an operation, taken together
    Pauses,         \* the pauses the docs promise after 1, 2, ... failures
    Nobody

Doublings == 4

VARIABLES
    queue,      \* callers waiting for the lock, in order
    holder,     \* the caller that has it
    stage,      \* "sleeping" until the spacing is kept, or "operating"
    spacing,    \* time until _next_request
    cooldown,   \* time until _retry_at
    failures,   \* as far as it matters: up to Doublings + 1
    lasted,     \* how long the operation has run
    waited,     \* how long each caller has waited for the lock or its sleep
    since,      \* time since an operation ended, up to Spacing
    owed,       \* time for which the last failure, by the docs, forbids requests
    streak      \* failures since the last success, up to Doublings + 1

gateVars  == <<queue, holder, stage, spacing, cooldown, failures>>
ghostVars == <<lasted, waited, since, owed, streak>>
vars == <<gateVars, ghostVars>>

Init ==
    /\ queue = <<>> /\ holder = Nobody /\ stage = "idle"
    /\ spacing = 0 /\ cooldown = 0 /\ failures = 0
    /\ lasted = 0 /\ waited = [c \in Callers |-> 0]
    /\ since = Spacing /\ owed = 0 /\ streak = 0

Least(a, b) == IF a < b THEN a ELSE b
Most(a, b)  == IF a < b THEN b ELSE a

(* retry_after_seconds: a hint in the past is none at all, a long one capped. *)
RetryAfter(hint) == Least(HintCap, Most(0, hint))

(* The pause after n failures in a row.                                       *)
Backoff(n) == Least(Base * 2 ^ Least(n - 1, Doublings), Cap)

(* What the theorems assume of the constants; the docs promise the pauses that*)
(* the doubling gives.                                                        *)
GateConstants ==
    /\ Base \in Nat \ {0} /\ Cap \in Nat /\ HintCap \in Nat
    /\ Spacing \in Nat /\ MaxDuration \in Nat /\ Hints \subseteq Int
    /\ IsFiniteSet(Callers) /\ Nobody \notin Callers
    /\ \A n \in 1..(Doublings + 1) : Pauses[n] \in Nat /\ Pauses[n] = Backoff(n)

Calling == ToSet(queue) \cup {holder}

Call(c) ==
    /\ c \notin Calling
    /\ queue' = Append(queue, c) /\ waited' = [waited EXCEPT ![c] = 0]
    /\ UNCHANGED <<holder, stage, spacing, cooldown, failures, lasted, since, owed, streak>>

Leave == holder' = Nobody /\ stage' = "idle"

EnterWaitsForCooldown ==                                           \* mutated
    /\ holder = Nobody /\ queue # <<>>
    /\ queue' = Tail(queue)
    /\ holder' = Head(queue) /\ lasted' = 0
    /\ spacing' = Most(spacing, cooldown)
    /\ stage' = IF spacing' > 0 THEN "sleeping" ELSE "operating"
    /\ UNCHANGED <<cooldown, failures, waited, since, owed, streak>>

EnterUnchecked ==                                                  \* mutated
    /\ holder = Nobody /\ queue # <<>>
    /\ queue' = Tail(queue)
    /\ holder' = Head(queue) /\ lasted' = 0
    /\ stage' = IF spacing > 0 THEN "sleeping" ELSE "operating"
    /\ UNCHANGED <<spacing, cooldown, failures, waited, since, owed, streak>>

EnterExtends ==                                                    \* mutated
    /\ holder = Nobody /\ queue # <<>>
    /\ queue' = Tail(queue)
    /\ IF cooldown > 0
       THEN Leave /\ cooldown' = Backoff(failures) /\ UNCHANGED lasted
       ELSE /\ holder' = Head(queue) /\ lasted' = 0 /\ UNCHANGED cooldown
            /\ stage' = IF spacing > 0 THEN "sleeping" ELSE "operating"
    /\ UNCHANGED <<spacing, failures, waited, since, owed, streak>>

(* The lock is handed over: in a cooldown the caller is turned away at once.  *)
Enter ==
    /\ holder = Nobody /\ queue # <<>>
    /\ queue' = Tail(queue)
    /\ IF cooldown > 0
       THEN Leave /\ UNCHANGED lasted
       ELSE /\ holder' = Head(queue) /\ lasted' = 0
            /\ stage' = IF spacing > 0 THEN "sleeping" ELSE "operating"
    /\ UNCHANGED <<spacing, cooldown, failures, waited, since, owed, streak>>

Awake ==
    /\ stage = "sleeping" /\ spacing = 0
    /\ stage' = "operating"
    /\ UNCHANGED <<queue, holder, spacing, cooldown, failures, ghostVars>>

EndWithoutSpacing ==                                               \* mutated
    /\ stage = "operating"
    /\ Leave /\ spacing' = spacing /\ since' = 0
    /\ UNCHANGED <<queue, waited, lasted>>

(* However the operation ends, the next one keeps its distance from it.       *)
End ==
    /\ stage = "operating"
    /\ Leave /\ spacing' = Spacing /\ since' = 0
    /\ UNCHANGED <<queue, waited, lasted>>

Succeed ==
    /\ End
    /\ failures' = 0 /\ cooldown' = 0
    /\ owed' = 0 /\ streak' = 0

(* PublicRequestError, with the server's hint; 0 stands for none.             *)
Fail(hint) ==
    /\ End
    /\ failures' = Least(failures + 1, Doublings + 1)
    /\ cooldown' = Most(Backoff(failures'), Least(HintCap, RetryAfter(hint)))
    /\ streak' = Least(streak + 1, Doublings + 1)
    /\ owed' = Most(Pauses[streak'], RetryAfter(hint))

(* Another exception of the operation, or its cancellation: neither a failure *)
(* nor a success is claimed.                                                  *)
BreakOff == End /\ UNCHANGED <<failures, cooldown, owed, streak>>

CancelWaiting ==
    /\ \E i \in DOMAIN queue : queue' = RemoveAt(queue, i)
    /\ UNCHANGED <<holder, stage, spacing, cooldown, failures, ghostVars>>

CancelSleepKeepsLock ==                                            \* mutated
    /\ stage = "sleeping"
    /\ stage' = "idle"
    /\ UNCHANGED <<queue, holder, spacing, cooldown, failures, ghostVars>>

CancelSleep ==
    /\ stage = "sleeping"
    /\ Leave
    /\ UNCHANGED <<queue, spacing, cooldown, failures, ghostVars>>

(* A unit of time passes, while nothing is ready to run.                      *)
Tick ==
    /\ holder = Nobody => queue = <<>>
    /\ stage = "sleeping" => spacing > 0
    /\ stage = "operating" => lasted < MaxDuration
    /\ spacing' = Most(0, spacing - 1) /\ cooldown' = Most(0, cooldown - 1)
    /\ lasted' = IF stage = "operating" THEN lasted + 1 ELSE lasted
    /\ waited' = [c \in Callers |->
                    IF c \in ToSet(queue) \/ (c = holder /\ stage = "sleeping")
                    THEN waited[c] + 1 ELSE waited[c]]
    /\ since' = Least(since + 1, Spacing) /\ owed' = Most(0, owed - 1)
    /\ UNCHANGED <<queue, holder, stage, failures, streak>>

Calls == \E c \in Callers : Call(c)
Fails == \E hint \in Hints : Fail(hint)
Cancels == CancelWaiting \/ CancelSleep

Next ==
    \/ Calls \/ Cancels \/ Tick
    \/ Enter \/ Awake \/ Succeed \/ Fails \/ BreakOff

Spec == Init /\ [][Next]_vars

-------------------------------------------------------------------------------
(* Properties *)

TypeOK ==
    /\ queue \in Seq(Callers) /\ holder \in Callers \cup {Nobody}
    /\ stage \in {"idle", "sleeping", "operating"}
    /\ spacing \in Nat /\ cooldown \in Nat /\ failures \in 0..(Doublings + 1)
    /\ lasted \in 0..MaxDuration /\ waited \in [Callers -> Nat]
    /\ since \in 0..Spacing /\ owed \in Nat /\ streak \in 0..(Doublings + 1)
    /\ IsInjective(queue) /\ holder \notin ToSet(queue)
    /\ stage = "idle" <=> holder = Nobody

Starts == stage # "operating" /\ stage' = "operating"

(* No request leaves while the last failure forbids it: for the pause its     *)
(* place in a row of failures calls for and for the time the server asked     *)
(* for, whichever caller failed, and although cancelled and broken operations *)
(* and suppressed calls come between.  And an operation starts at least       *)
(* Spacing after the one before it ended, however that one ended ("Completed  *)
(* operations are spaced by at least one second", docs/REFERENCE.md).         *)
KeepsDistance == Starts => owed = 0 /\ since = Spacing

OperationsKeepDistance == [][KeepsDistance]_vars

(* "Cooldowns fail fast; they never keep a setup flow or an unload waiting    *)
(* for minutes": a caller waits at most for the operations ahead of it.       *)
WaitsAreShort ==
    \A c \in Callers : waited[c] <= Cardinality(Callers) * (MaxDuration + Spacing)

(* A success is the only thing that ends a pause early, and no more than the  *)
(* pause owed is imposed: the suppressed calls do not extend it.              *)
PauseIsExact == cooldown = owed

PausesAreExact == TypeOK /\ PauseIsExact /\ WaitsAreShort
===============================================================================
