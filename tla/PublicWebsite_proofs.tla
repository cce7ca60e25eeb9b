-------------------------- MODULE PublicWebsite_proofs --------------------------
(* Proofs about the requests to a public website.  PublicRequests, for any    *)
(* number of callers and any durations: the pause in force is the one owed,   *)
(* operations keep their distance, and nobody waits longer than for the       *)
(* operations ahead.  PublicWebsite (W), for any number of refreshes and      *)
(* versions: requests are few, a token goes with its cookies, and what is     *)
(* called verified is what the website publishes.                             *)
EXTENDS MCPublicWebsite, FiniteSetTheorems, SequenceTheorems, TLAPS

(* The gate *)

Number == Cardinality(Callers)
Longest == MaxDuration + Spacing    \* of one operation, with the sleep before it
Room(k) == k * Longest              \* what k operations may take

(* How far the caller that has the lock is, of the Longest it may take.       *)
Progress ==
    IF stage = "sleeping" THEN Spacing - spacing
    ELSE IF stage = "operating" THEN Spacing + lasted ELSE Longest

(* The pause in force is the one owed, and in it nobody sleeps or operates:   *)
(* what has the lock was let in when nothing was owed.  The spacing left and  *)
(* the time since the last operation make up the distance to keep.            *)
Paced ==
    /\ spacing \in Nat /\ since \in 0..Spacing /\ spacing + since = Spacing
    /\ cooldown \in Nat /\ owed = cooldown
    /\ failures \in 0..(Doublings + 1) /\ streak = failures
    /\ stage \in {"idle", "sleeping", "operating"}
    /\ stage # "idle" => cooldown = 0
    /\ lasted \in 0..MaxDuration /\ (stage = "sleeping" => lasted = 0)

(* Callers stand in the queue once, and have waited no longer than those who  *)
(* were ahead of them may have taken.                                         *)
Queued ==
    /\ queue \in Seq(Callers) /\ holder \in Callers \cup {Nobody}
    /\ IsInjective(queue) /\ holder \notin ToSet(queue)
    /\ stage = "idle" <=> holder = Nobody
    /\ waited \in [Callers -> Nat]
    /\ \A c \in Callers : waited[c] <= Room(Number)
    /\ \A i \in 1..Len(queue) : waited[queue[i]] <= Room(Number - i) + Progress - Longest
    /\ stage = "sleeping" => waited[holder] <= Room(Number - 1) + Progress

IInv == Paced /\ Queued

-------------------------------------------------------------------------------
LEMMA PacedInit == GateConstants /\ Init => Paced
BY DEF GateConstants, Init, Paced, Doublings

(* One step keeps the pause and the distance.                                 *)
LEMMA PacedNext ==
    ASSUME GateConstants, Paced, [Next]_vars
    PROVE  Paced'
<1> USE DEF Paced, GateConstants, gateVars, ghostVars, vars, Doublings, Leave
<1>1. CASE Calls
    BY <1>1 DEF Calls, Call
<1>2. CASE Cancels
    BY <1>2 DEF Cancels, CancelWaiting, CancelSleep
<1>3. CASE Tick
    BY <1>3 DEF Tick, Most, Least
<1>4. CASE Enter
    BY <1>4 DEF Enter
<1>5. CASE Awake
    BY <1>5 DEF Awake
<1>6. CASE Succeed
    BY <1>6 DEF Succeed, End
<1>7. CASE Fails
  <2>1. PICK hint \in Hints : Fail(hint)
      BY <1>7 DEF Fails
  <2>2. /\ spacing' = Spacing /\ since' = 0 /\ stage' = "idle" /\ lasted' = lasted
        /\ failures' = Least(failures + 1, Doublings + 1)
        /\ streak' = Least(streak + 1, Doublings + 1)
      BY <2>1 DEF Fail, End
  <2>3. failures' \in 1..5 /\ streak' = failures'
      BY <2>2 DEF Least
  <2>4. RetryAfter(hint) \in Nat /\ Least(HintCap, RetryAfter(hint)) = RetryAfter(hint)
      BY DEF RetryAfter, Least, Most
  <2>5. Pauses[streak'] \in Nat /\ Pauses[streak'] = Backoff(failures')
      BY <2>3
  <2>6. /\ cooldown' = Most(Backoff(failures'), Least(HintCap, RetryAfter(hint)))
        /\ owed' = Most(Pauses[streak'], RetryAfter(hint))
      BY <2>1 DEF Fail
  <2>7. cooldown' \in Nat /\ owed' = cooldown'
      BY <2>4, <2>5, <2>6 DEF Most
  <2> QED BY <2>2, <2>3, <2>7
<1>8. CASE BreakOff
    BY <1>8 DEF BreakOff, End
<1>9. CASE UNCHANGED vars
    BY <1>9
<1> QED BY <1>1, <1>2, <1>3, <1>4, <1>5, <1>6, <1>7, <1>8, <1>9 DEF Next

LEMMA Pacing == ASSUME GateConstants PROVE Spec => []Paced
<1>1. Init => Paced
    BY PacedInit
<1>2. Paced /\ [Next]_vars => Paced'
    BY PacedNext
<1> QED BY <1>1, <1>2, PTL DEF Spec

(* No request leaves while the last failure forbids it, and an operation      *)
(* starts at least the spacing after the one before it ended.                 *)
THEOREM DistanceIsKept == ASSUME GateConstants PROVE Spec => OperationsKeepDistance
<1>1. ASSUME Paced, [Next]_vars PROVE KeepsDistance
  <2> SUFFICES ASSUME Starts PROVE owed = 0 /\ since = Spacing
      BY DEF KeepsDistance
  <2> USE DEF Starts, Paced, gateVars, ghostVars, vars, Leave
  <2>1. CASE Calls \/ Cancels \/ Tick
      BY <2>1 DEF Calls, Call, Cancels, CancelWaiting, CancelSleep, Tick
  <2>2. CASE Enter
      BY <1>1, <2>2 DEF Enter, GateConstants
  <2>3. CASE Awake
      BY <1>1, <2>3 DEF Awake, GateConstants
  <2>4. CASE Succeed \/ BreakOff
      BY <2>4 DEF Succeed, BreakOff, End
  <2>5. CASE Fails
      BY <2>5 DEF Fails, Fail, End
  <2>6. CASE UNCHANGED vars
      BY <2>6
  <2> QED BY <1>1, <2>1, <2>2, <2>3, <2>4, <2>5, <2>6 DEF Next
<1>2. Paced /\ [Next]_vars => KeepsDistance
    BY <1>1
<1> QED BY <1>2, Pacing, PTL DEF Spec, OperationsKeepDistance

-------------------------------------------------------------------------------
(* Room grows with the number of operations, by Longest each.                *)
LEMMA Rooms ==
    ASSUME GateConstants
    PROVE  /\ Longest \in Nat /\ Room(0) = 0 /\ Room(1) = Longest
           /\ \A k \in Nat : Room(k) >= 0
           /\ \A k \in Int : Room(k) \in Int /\ Room(k - 1) = Room(k) - Longest
           /\ \A j, k \in Int : j <= k => Room(j) <= Room(k)
<1>1. Longest \in Nat
    BY DEF GateConstants, Longest
<1>2. Room(0) = 0 /\ Room(1) = Longest /\ \A k \in Int : Room(k) \in Int /\ Room(k - 1) = Room(k) - Longest
    BY <1>1 DEF Room
<1>3. ASSUME NEW j \in Int, NEW k \in Int, j <= k PROVE Room(j) <= Room(k)
  <2>1. k - j \in Nat
      BY <1>3
  <2>2. (k - j) * Longest \in Nat
      BY <1>1, <2>1
  <2>3. k * Longest = j * Longest + (k - j) * Longest
      BY <1>1
  <2>4. j * Longest \in Int /\ k * Longest \in Int
      BY <1>1
  <2> QED BY <2>2, <2>3, <2>4 DEF Room
<1>4. \A k \in Nat : Room(k) >= 0
    BY <1>2, <1>3
<1> QED BY <1>1, <1>2, <1>3, <1>4

(* Nobody stands in the queue twice, nor while holding the lock, so with the  *)
(* holder it is no longer than there are callers.                             *)
LEMMA QueueIsShort ==
    ASSUME GateConstants, NEW q \in Seq(Callers), IsInjective(q),
           NEW h \in Callers \cup {Nobody}, h \notin ToSet(q)
    PROVE  /\ Number \in Nat /\ Len(q) <= Number
           /\ h # Nobody => Len(q) <= Number - 1 /\ Number >= 1
<1>1. IsFiniteSet(Callers) /\ Number \in Nat
    BY FS_CardinalityType DEF GateConstants, Number
<1>2. Len(q) \in Nat /\ DOMAIN q = 1..Len(q)
      /\ \A i \in 1..Len(q) : q[i] \in Callers
    OBVIOUS
<1>3. ASSUME NEW S \in SUBSET Callers, \A i \in 1..Len(q) : q[i] \in S
      PROVE  Len(q) <= Cardinality(S)
  <2> DEFINE D == 1..Len(q)
  <2>1. IsFiniteSet(S)
      BY <1>1, FS_Subset
  <2>2. IsFiniteSet(D) /\ Cardinality(D) = Len(q)
    <3>1. 1 \in Int /\ Len(q) \in Int
        BY <1>2
    <3>2. IsFiniteSet(D) /\ Cardinality(D) = IF 1 > Len(q) THEN 0 ELSE Len(q) - 1 + 1
        BY <3>1, FS_Interval
    <3> QED BY <1>2, <3>2
  <2>3. q \in [D -> S]
      BY <1>2, <1>3
  <2>4. q \in Injection(D, S)
      BY <2>3 DEF Injection, IsInjective
  <2> HIDE DEF D
  <2> QED BY <2>1, <2>2, <2>4, FS_Injection
<1>4. h # Nobody =>
          Cardinality(Callers \ {h}) = Number - 1 /\ IsFiniteSet(Callers \ {h})
    BY <1>1, FS_RemoveElement DEF Number
<1>5. h # Nobody => \A i \in 1..Len(q) : q[i] \in Callers \ {h}
    BY <1>2 DEF ToSet
<1>6. h # Nobody => Len(q) <= Number - 1
    BY <1>3, <1>4, <1>5
<1> QED BY <1>1, <1>2, <1>3, <1>6 DEF Number

-------------------------------------------------------------------------------
LEMMA Difference ==
    ASSUME NEW a \in Nat, NEW b \in Nat, NEW c \in Nat
    PROVE  c + b \in Nat /\ (a + b = c => c - a \in Nat)
OBVIOUS

LEMMA ProgressIsBounded ==
    ASSUME GateConstants, Paced
    PROVE  Progress \in 0..Longest /\ (stage = "idle" => Progress = Longest)
BY DEF GateConstants, Paced, Progress, Longest

LEMMA QueuedInit == GateConstants /\ Init => Queued
<1> SUFFICES ASSUME GateConstants, Init PROVE Queued
    OBVIOUS
<1>1. Number \in Nat
    BY FS_CardinalityType DEF GateConstants, Number
<1>2. Room(Number) >= 0
    BY <1>1, Rooms
<1>3. queue = <<>> /\ Len(queue) = 0 /\ DOMAIN queue = {} /\ queue \in Seq(Callers)
    BY DEF Init
<1> QED BY <1>2, <1>3 DEF Init, Queued, IsInjective, ToSet, GateConstants

(* The queue after its i-th place is given up, and after its head is let in.  *)
LEMMA PlaceGivenUp ==
    ASSUME queue \in Seq(Callers), IsInjective(queue), NEW i \in DOMAIN queue
    PROVE  LET q == RemoveAt(queue, i)
           IN  /\ q \in Seq(Callers) /\ Len(q) = Len(queue) - 1
               /\ \A j \in 1..Len(q) : q[j] = queue[IF j < i THEN j ELSE j + 1]
               /\ IsInjective(q) /\ ToSet(q) \subseteq ToSet(queue)
<1> DEFINE q == RemoveAt(queue, i)
<1>1. Len(queue) \in Nat /\ DOMAIN queue = 1..Len(queue) /\ i \in 1..Len(queue)
    OBVIOUS
<1> DEFINE before == SubSeq(queue, 1, i - 1)
           after  == SubSeq(queue, i + 1, Len(queue))
<1>2. /\ before \in Seq(Callers) /\ Len(before) = i - 1
      /\ \A j \in 1..(i - 1) : before[j] = queue[j]
    BY <1>1
<1>3. /\ after \in Seq(Callers) /\ Len(after) = Len(queue) - i
      /\ \A j \in 1..(Len(queue) - i) : after[j] = queue[i + j]
    BY <1>1
<1>4. /\ q \in Seq(Callers) /\ Len(q) = Len(queue) - 1 /\ DOMAIN q = 1..Len(q)
      /\ \A j \in 1..Len(q) : q[j] = queue[IF j < i THEN j ELSE j + 1]
  <2>1. q = before \o after
      BY DEF RemoveAt
  <2> HIDE DEF q, before, after
  <2>2. /\ q \in Seq(Callers) /\ Len(q) = Len(before) + Len(after)
        /\ \A j \in 1..Len(q) : q[j] = IF j <= Len(before) THEN before[j]
                                       ELSE after[j - Len(before)]
    <3>1. before \in Seq(Callers) /\ after \in Seq(Callers)
        BY <1>2, <1>3
    <3>2. /\ before \o after \in Seq(Callers)
          /\ Len(before \o after) = Len(before) + Len(after)
          /\ \A j \in 1..(Len(before) + Len(after)) :
                (before \o after)[j] = IF j <= Len(before) THEN before[j]
                                       ELSE after[j - Len(before)]
        BY <3>1, ConcatProperties, Zenon
    <3> QED BY <2>1, <3>2
  <2>3. q \in Seq(Callers) /\ Len(q) = Len(queue) - 1 /\ DOMAIN q = 1..Len(q)
      BY <1>1, <1>2, <1>3, <2>2
  <2>4. ASSUME NEW j \in 1..Len(q) PROVE q[j] = queue[IF j < i THEN j ELSE j + 1]
    <3>1. CASE j < i
        BY <3>1, <1>1, <1>2, <2>2, <2>3
    <3>2. CASE j >= i
      <4>1. j - (i - 1) \in 1..(Len(queue) - i) /\ i + (j - (i - 1)) = j + 1
          BY <3>2, <1>1, <2>3
      <4>2. q[j] = after[j - (i - 1)]
          BY <3>2, <1>1, <1>2, <2>2, <2>3
      <4> QED BY <3>2, <4>1, <4>2, <1>1, <1>3
    <3> QED BY <3>1, <3>2, <1>1
  <2> QED BY <2>3, <2>4
<1> HIDE DEF q
<1>5. IsInjective(q)
  <2> SUFFICES ASSUME NEW a \in 1..Len(q), NEW b \in 1..Len(q), q[a] = q[b] PROVE a = b
      BY <1>4 DEF IsInjective
  <2>1. \A j \in 1..Len(q) : (IF j < i THEN j ELSE j + 1) \in DOMAIN queue
      BY <1>1, <1>4
  <2>2. (IF a < i THEN a ELSE a + 1) = (IF b < i THEN b ELSE b + 1)
      BY <1>4, <2>1 DEF IsInjective
  <2> QED BY <1>1, <1>4, <2>2
<1>6. ToSet(q) \subseteq ToSet(queue)
    BY <1>1, <1>4 DEF ToSet
<1> QED BY <1>4, <1>5, <1>6 DEF q

LEMMA HeadLetIn ==
    ASSUME queue \in Seq(Callers), IsInjective(queue), queue # <<>>
    PROVE  /\ Tail(queue) \in Seq(Callers) /\ Len(Tail(queue)) = Len(queue) - 1
           /\ Head(queue) = queue[1] /\ Head(queue) \in Callers
           /\ Len(queue) \in Nat /\ Len(queue) >= 1
           /\ \A j \in 1..Len(Tail(queue)) : Tail(queue)[j] = queue[j + 1]
           /\ IsInjective(Tail(queue)) /\ Head(queue) \notin ToSet(Tail(queue))
           /\ ToSet(Tail(queue)) \subseteq ToSet(queue)
<1> DEFINE q == Tail(queue)
<1>1. /\ Len(queue) \in Nat /\ Len(queue) >= 1 /\ DOMAIN queue = 1..Len(queue)
      /\ Head(queue) = queue[1] /\ Head(queue) \in Callers
    OBVIOUS
<1>2. /\ q \in Seq(Callers) /\ Len(q) = Len(queue) - 1 /\ DOMAIN q = 1..Len(q)
      /\ \A j \in 1..Len(q) : q[j] = queue[j + 1]
    OBVIOUS
<1> HIDE DEF q
<1>3. IsInjective(q)
  <2> SUFFICES ASSUME NEW a \in 1..Len(q), NEW b \in 1..Len(q), q[a] = q[b] PROVE a = b
      BY <1>2 DEF IsInjective
  <2>1. a + 1 \in DOMAIN queue /\ b + 1 \in DOMAIN queue /\ queue[a + 1] = queue[b + 1]
      BY <1>1, <1>2
  <2>2. a + 1 = b + 1
      BY <2>1 DEF IsInjective
  <2> QED BY <1>2, <2>2
<1>4. Head(queue) \notin ToSet(q)
  <2> SUFFICES ASSUME NEW a \in 1..Len(q), q[a] = Head(queue) PROVE FALSE
      BY <1>2 DEF ToSet
  <2>1. a + 1 \in DOMAIN queue /\ 1 \in DOMAIN queue /\ queue[a + 1] = queue[1] /\ a + 1 # 1
      BY <1>1, <1>2
  <2> QED BY <2>1 DEF IsInjective
<1>5. ToSet(q) \subseteq ToSet(queue)
  <2> SUFFICES ASSUME NEW a \in 1..Len(q) PROVE \E b \in DOMAIN queue : queue[b] = q[a]
      BY <1>2 DEF ToSet
  <2> QED BY <1>1, <1>2
<1> QED BY <1>1, <1>2, <1>3, <1>4, <1>5 DEF q

(* When the lock is given back, those in the queue have the rest of the       *)
(* operation less to wait.                                                    *)
LEMMA LockGivenBack ==
    ASSUME GateConstants, Paced, Queued, UNCHANGED <<queue, waited>>,
           holder' = Nobody, stage' = "idle"
    PROVE  Queued'
<1>1. Nobody \notin Callers /\ Nobody \notin ToSet(queue) /\ Len(queue) \in Nat
    BY DEF GateConstants, Queued, ToSet
<1>2. Progress' = Longest /\ Longest \in Nat
    BY Rooms DEF Progress
<1>3. Progress \in 0..Longest
    BY ProgressIsBounded
<1>4. Number \in Nat
    BY FS_CardinalityType DEF GateConstants, Number
<1>5. \A i \in 1..Len(queue) : waited[queue[i]] <= Room(Number - i)
  <2> SUFFICES ASSUME NEW i \in 1..Len(queue) PROVE waited[queue[i]] <= Room(Number - i)
      OBVIOUS
  <2>1. waited[queue[i]] <= Room(Number - i) + Progress - Longest
      BY DEF Queued
  <2>2. queue[i] \in Callers /\ Number - i \in Int
      BY <1>1, <1>4 DEF Queued
  <2>3. Room(Number - i) \in Int
      BY <2>2, Rooms
  <2>4. waited[queue[i]] \in Nat
      BY <2>2 DEF Queued
  <2> QED BY <1>2, <1>3, <2>1, <2>3, <2>4
<1>6. \A i \in 1..Len(queue) : Room(Number - i) = Room(Number - i) + Longest - Longest
    BY <1>2, <1>4, Rooms
<1> QED BY <1>1, <1>2, <1>5, <1>6 DEF Queued

(* One step keeps the queue in order and the waits within what those ahead    *)
(* may take.                                                                  *)
LEMMA QueuedNext ==
    ASSUME GateConstants, IInv, [Next]_vars, Paced'
    PROVE  Queued'
<1> DEFINE Q == Len(queue)
<1>q. Queued /\ Paced
    BY DEF IInv
<1>g. Spacing \in Nat /\ MaxDuration \in Nat /\ Nobody \notin Callers
    BY DEF GateConstants
<1>n. Number \in Nat /\ Q \in Nat /\ Q <= Number /\ (holder # Nobody => Q <= Number - 1)
    BY <1>q, QueueIsShort DEF Queued
<1>r. /\ Longest \in Nat /\ Room(0) = 0 /\ Room(1) = Longest
      /\ \A k \in Nat : Room(k) >= 0
      /\ \A k \in Int : Room(k) \in Int /\ Room(k - 1) = Room(k) - Longest
      /\ \A j, k \in Int : j <= k => Room(j) <= Room(k)
    BY Rooms
<1>p. Progress \in 0..Longest /\ (stage = "idle" => Progress = Longest)
    BY <1>q, ProgressIsBounded
<1>w. \A c \in Callers : waited[c] \in Nat
    BY <1>q DEF Queued
<1>l. DOMAIN queue = 1..Q /\ \A i \in 1..Q : queue[i] \in Callers
    BY <1>q DEF Queued
<1>1. ASSUME NEW c \in Callers, Call(c) PROVE Queued'
  <2>1. /\ queue' = Append(queue, c) /\ c # holder /\ c \notin ToSet(queue)
        /\ waited' = [waited EXCEPT ![c] = 0]
        /\ UNCHANGED <<holder, stage, spacing, lasted>>
      BY <1>1 DEF Call, Calling
  <2>2. /\ queue' \in Seq(Callers) /\ Len(queue') = Q + 1 /\ DOMAIN queue' = 1..(Q + 1)
        /\ (\A i \in 1..Q : queue'[i] = queue[i]) /\ queue'[Q + 1] = c
      BY <1>q, <2>1 DEF Queued
  <2>3. IsInjective(queue') /\ holder' \notin ToSet(queue')
    <3>1. \A i \in 1..Q : queue[i] # c /\ queue[i] # holder
        BY <1>l, <1>q, <2>1 DEF ToSet, Queued
    <3>2. \A i \in 1..(Q + 1) : i \in 1..Q \/ i = Q + 1
        BY <1>n
    <3>3. \A i \in 1..(Q + 1) : queue'[i] # holder
        BY <2>1, <2>2, <3>1, <3>2
    <3>4. ASSUME NEW a \in 1..(Q + 1), NEW b \in 1..(Q + 1), queue'[a] = queue'[b] PROVE a = b
      <4>1. CASE a \in 1..Q /\ b \in 1..Q
          BY <1>l, <1>q, <2>2, <3>4, <4>1 DEF Queued, IsInjective
      <4>2. CASE ~ (a \in 1..Q /\ b \in 1..Q)
          BY <2>2, <3>1, <3>2, <3>4, <4>2
      <4> QED BY <4>1, <4>2
    <3> QED BY <2>1, <2>2, <3>3, <3>4 DEF IsInjective, ToSet
  <2>4. Q + 1 <= Number /\ (holder # Nobody => Q + 1 <= Number - 1)
    <3>1. queue' \in Seq(Callers) /\ IsInjective(queue') /\ holder' \in Callers \cup {Nobody}
        BY <1>q, <2>1, <2>2, <2>3 DEF Queued
    <3>2. Number' = Number
        BY DEF Number
    <3> QED BY <1>q, <2>1, <2>2, <2>3, <3>1, <3>2, QueueIsShort
  <2>5. Progress' = Progress /\ Room(Number)' = Room(Number)
      BY <2>1 DEF Progress
  <2>6. waited' \in [Callers -> Nat] /\ waited'[c] = 0 /\ \A d \in Callers : d # c => waited'[d] = waited[d]
      BY <1>q, <2>1 DEF Queued
  <2>7. ASSUME NEW i \in 1..(Q + 1)
        PROVE  waited'[queue'[i]] <= Room(Number - i) + Progress - Longest
    <3>1. CASE i \in 1..Q
        BY <1>l, <1>q, <2>1, <2>2, <2>6, <3>1 DEF Queued, ToSet
    <3>2. CASE i = Q + 1
      <4>1. Number - i \in Int /\ Number - i >= 0 /\ (holder # Nobody => Number - i >= 1)
          BY <3>2, <1>n, <2>4
      <4>2. Room(Number - i) \in Int /\ Room(Number - i) >= 0 /\ Room(1) = Longest
          BY <4>1, <1>r
      <4>3. holder # Nobody => Room(Number - i) >= Longest
          BY <4>1, <4>2, <1>r
      <4>4. holder = Nobody => Progress = Longest
          BY <1>p, <1>q DEF Queued
      <4>5. Progress \in Int /\ Progress >= 0 /\ Longest \in Int
          BY <1>p, <1>r
      <4>6. 0 <= Room(Number - i) + Progress - Longest
          BY <4>2, <4>3, <4>4, <4>5
      <4>7. waited'[queue'[i]] = 0
          BY <3>2, <2>2, <2>6
      <4> QED BY <4>6, <4>7
    <3> QED BY <3>1, <3>2, <1>n
  <2>8. \A d \in Callers : waited'[d] <= Room(Number)
    <3>1. Room(Number) >= 0
        BY <1>n, <1>r
    <3> QED BY <1>q, <2>6, <3>1 DEF Queued
  <2>9. stage' = "sleeping" => waited'[holder'] <= Room(Number - 1) + Progress
      BY <1>q, <2>1, <2>6 DEF Queued
  <2> QED BY <1>q, <2>1, <2>2, <2>3, <2>5, <2>6, <2>7, <2>8, <2>9 DEF Queued
<1>2. CASE CancelWaiting
  <2>1. PICK i \in DOMAIN queue : queue' = RemoveAt(queue, i)
      BY <1>2 DEF CancelWaiting
  <2>2. UNCHANGED <<holder, stage, spacing, lasted, waited>>
      BY <1>2 DEF CancelWaiting, ghostVars
  <2>3. /\ queue' \in Seq(Callers) /\ Len(queue') = Q - 1
        /\ \A j \in 1..Len(queue') : queue'[j] = queue[IF j < i THEN j ELSE j + 1]
        /\ IsInjective(queue') /\ ToSet(queue') \subseteq ToSet(queue)
      BY <1>q, <2>1, PlaceGivenUp DEF Queued
  <2>4. Progress' = Progress /\ Room(Number)' = Room(Number)
      BY <2>2 DEF Progress
  <2>5. ASSUME NEW j \in 1..Len(queue')
        PROVE  waited'[queue'[j]] <= Room(Number - j) + Progress - Longest
    <3>0. i \in Int /\ j \in 1..(Q - 1) /\ Number - j \in Int
        BY <1>l, <1>n, <2>3
    <3>1. CASE j < i
      <4>1. queue'[j] = queue[j] /\ j \in 1..Q
          BY <2>3, <3>0, <3>1, <1>n
      <4> QED BY <4>1, <1>q, <2>2 DEF Queued
    <3>2. CASE ~ (j < i)
      <4>1. queue'[j] = queue[j + 1] /\ j + 1 \in 1..Q
          BY <2>3, <3>0, <3>2, <1>n
      <4>2. waited[queue[j + 1]] <= Room(Number - (j + 1)) + Progress - Longest
          BY <4>1, <1>q DEF Queued
      <4>3. /\ Room(Number - (j + 1)) <= Room(Number - j)
            /\ Room(Number - (j + 1)) \in Int /\ Room(Number - j) \in Int
        <5>1. /\ Number - (j + 1) \in Int /\ Number - j \in Int
              /\ Number - (j + 1) <= Number - j
            BY <1>n, <3>0
        <5> QED BY <5>1, <1>r
      <4>4. Progress \in Int /\ waited[queue[j + 1]] \in Int
        <5>1. queue[j + 1] \in Callers
            BY <1>l, <4>1
        <5>2. waited[queue[j + 1]] \in Nat
            BY <1>w, <5>1
        <5>3. Longest \in Nat
            BY <1>r
        <5> QED BY <1>p, <5>2, <5>3
      <4>5. waited'[queue'[j]] = waited[queue[j + 1]] /\ Longest \in Int
          BY <2>2, <4>1, <1>r
      <4> QED BY <4>2, <4>3, <4>4, <4>5
    <3> QED BY <3>1, <3>2
  <2> QED BY <1>q, <2>2, <2>3, <2>4, <2>5 DEF Queued
<1>3. CASE CancelSleep
  <2>1. /\ UNCHANGED <<queue, waited>> /\ holder' = Nobody /\ stage' = "idle"
        /\ stage = "sleeping"
      BY <1>3 DEF CancelSleep, Leave, ghostVars
  <2> QED BY <1>q, <2>1, LockGivenBack
<1>4. CASE End
  <2>1. /\ UNCHANGED <<queue, waited>> /\ holder' = Nobody /\ stage' = "idle"
      BY <1>4 DEF End, Leave
  <2> QED BY <1>q, <2>1, LockGivenBack
<1>5. CASE Enter
  <2>1. /\ holder = Nobody /\ queue # <<>> /\ queue' = Tail(queue) /\ stage = "idle"
        /\ UNCHANGED <<spacing, waited>>
      BY <1>5, <1>q DEF Enter, Queued
  <2>2. /\ queue' \in Seq(Callers) /\ Len(queue') = Q - 1
        /\ Head(queue) = queue[1] /\ Head(queue) \in Callers /\ 1 \in 1..Q
        /\ \A j \in 1..Len(queue') : queue'[j] = queue[j + 1]
        /\ IsInjective(queue') /\ Head(queue) \notin ToSet(queue')
        /\ ToSet(queue') \subseteq ToSet(queue)
      BY <1>q, <2>1, HeadLetIn DEF Queued
  <2>3. \/ holder' = Nobody /\ stage' = "idle"
        \/ holder' = Head(queue) /\ lasted' = 0 /\ (stage' = IF spacing > 0 THEN "sleeping" ELSE "operating")
      BY <1>5 DEF Enter, Leave
  <2>4. Progress' \in Nat /\ Progress = Longest
    <3>1. Progress = Longest
        BY <1>p, <2>1
    <3>2. Longest' = Longest /\ Longest \in Nat
        BY <1>r DEF Longest
    <3>3. /\ spacing' \in Nat /\ since' \in 0..Spacing /\ spacing' + since' = Spacing
          /\ lasted' \in 0..MaxDuration /\ stage' \in {"idle", "sleeping", "operating"}
        BY DEF Paced
    <3>4. Spacing - spacing' \in Nat /\ Spacing + lasted' \in Nat
      <4>1. since' \in Nat /\ lasted' \in Nat
          BY <3>3, <1>g
      <4> QED BY <1>g, <3>3, <4>1, Difference
    <3>5. Progress' = IF stage' = "sleeping" THEN Spacing - spacing'
                      ELSE IF stage' = "operating" THEN Spacing + lasted' ELSE Longest
        BY <3>2 DEF Progress
    <3> QED BY <3>1, <3>2, <3>4, <3>5
  <2>5. ASSUME NEW j \in 1..(Q - 1)
        PROVE  waited'[queue'[j]] <= Room(Number - j) + Progress' - Longest
    <3>1. /\ j + 1 \in 1..Q /\ queue[j + 1] \in Callers /\ Number - j \in Int
          /\ Number - (j + 1) = (Number - j) - 1
        BY <1>l, <1>n
    <3>2. waited[queue[j + 1]] <= Room(Number - (j + 1)) + Progress - Longest
        BY <1>q, <3>1 DEF Queued
    <3>3. Room(Number - (j + 1)) = Room(Number - j) - Longest /\ Room(Number - j) \in Int
        BY <3>1, <1>r
    <3>4. waited[queue[j + 1]] \in Nat
        BY <3>1, <1>w
    <3>5. waited'[queue'[j]] = waited[queue[j + 1]]
        BY <2>1, <2>2
    <3>6. Longest \in Nat
        BY <1>r
    <3>7. waited[queue[j + 1]] <= Room(Number - j) - Longest
      <4>1. Room(Number - (j + 1)) \in Int
          BY <3>3, <3>6
      <4> QED BY <2>4, <3>2, <3>3, <3>6, <4>1
    <3> QED BY <2>4, <3>3, <3>4, <3>5, <3>6, <3>7
  <2>6. ASSUME stage' = "sleeping" PROVE waited'[holder'] <= Room(Number - 1) + Progress'
    <3>1. holder' = queue[1] /\ queue[1] \in Callers
        BY <2>2, <2>3, <2>6
    <3>2. waited[queue[1]] <= Room(Number - 1) + Progress - Longest
        BY <1>q, <2>2 DEF Queued
    <3>3. waited[queue[1]] \in Nat
        BY <3>1, <1>w
    <3>4. Room(Number - 1) \in Int /\ Longest \in Nat
        BY <1>n, <1>r
    <3> QED BY <2>1, <2>4, <3>1, <3>2, <3>3, <3>4
  <2>7. /\ holder' \in Callers \cup {Nobody} /\ holder' \notin ToSet(queue')
        /\ stage' = "idle" <=> holder' = Nobody
      BY <1>g, <1>q, <2>1, <2>2, <2>3 DEF Queued
  <2> QED BY <1>q, <2>1, <2>2, <2>5, <2>6, <2>7 DEF Queued
<1>6. CASE Awake
  <2>1. /\ UNCHANGED <<queue, waited, holder>> /\ stage = "sleeping" /\ stage' = "operating"
        /\ spacing = 0 /\ lasted' = lasted
      BY <1>6 DEF Awake, ghostVars
  <2>2. Progress' = Progress
      BY <1>q, <1>g, <2>1 DEF Progress, Paced
  <2>3. Room(Number)' = Room(Number)
      OBVIOUS
  <2>4. holder # Nobody
      BY <1>q, <2>1 DEF Queued
  <2> QED BY <1>q, <2>1, <2>2, <2>3, <2>4 DEF Queued
<1>7. CASE Tick
  <2>1. /\ UNCHANGED <<queue, holder, stage>> /\ (holder = Nobody => queue = <<>>)
        /\ (stage = "sleeping" => spacing > 0) /\ (stage = "operating" => lasted < MaxDuration)
        /\ spacing' = Most(0, spacing - 1)
        /\ lasted' = IF stage = "operating" THEN lasted + 1 ELSE lasted
      BY <1>7 DEF Tick
  <2>2. /\ waited' \in [Callers -> Nat]
        /\ \A c \in Callers :
              waited'[c] = IF c \in ToSet(queue) \/ (c = holder /\ stage = "sleeping")
                           THEN waited[c] + 1 ELSE waited[c]
      BY <1>7, <1>w DEF Tick
  <2>3. Progress' = IF stage = "idle" THEN Progress ELSE Progress + 1
      BY <1>g, <1>q, <2>1 DEF Progress, Paced, Most
  <2>4. Progress' \in 0..Longest
    <3>1. Longest' = Longest
        BY DEF Longest
    <3> QED BY <1>g, <2>1, <3>1 DEF Progress, Paced, Longest
  <2>5. ASSUME NEW i \in 1..Q
        PROVE  waited'[queue[i]] <= Room(Number - i) + Progress' - Longest
    <3>1. queue[i] \in Callers /\ queue[i] \in ToSet(queue)
        BY <1>l DEF ToSet
    <3>2. waited'[queue[i]] = waited[queue[i]] + 1 /\ waited[queue[i]] \in Nat
        BY <1>w, <2>2, <3>1
    <3>3. waited[queue[i]] <= Room(Number - i) + Progress - Longest
        BY <1>q DEF Queued
    <3>4. Room(Number - i) \in Int /\ Longest \in Nat
        BY <1>n, <1>r
    <3>5. stage # "idle"
        BY <1>q, <2>1 DEF Queued
    <3> QED BY <1>p, <2>3, <3>2, <3>3, <3>4, <3>5
  <2>6. ASSUME stage = "sleeping" PROVE waited'[holder] <= Room(Number - 1) + Progress'
    <3>1. holder \in Callers
        BY <1>q, <2>6 DEF Queued
    <3>2. waited'[holder] = waited[holder] + 1 /\ waited[holder] \in Nat
        BY <1>w, <2>2, <2>6, <3>1
    <3>3. waited[holder] <= Room(Number - 1) + Progress
        BY <1>q, <2>6 DEF Queued
    <3>4. Room(Number - 1) \in Int
        BY <1>n, <1>r
    <3> QED BY <1>p, <2>3, <2>6, <3>2, <3>3, <3>4
  <2>7. ASSUME NEW c \in Callers PROVE waited'[c] <= Room(Number)
    <3>1. waited'[c] \in Nat /\ Room(Number) \in Int /\ Longest \in Nat
        BY <1>n, <1>r, <2>2
    <3>2. CASE c \in ToSet(queue)
      <4>1. PICK i \in 1..Q : queue[i] = c
          BY <1>l, <3>2 DEF ToSet
      <4>2. waited'[c] <= Room(Number - i) + Progress' - Longest
          BY <2>5, <4>1
      <4>3. Room(Number - i) <= Room(Number) /\ Room(Number - i) \in Int
        <5>1. Number - i \in Int /\ Number \in Int /\ Number - i <= Number
            BY <1>n
        <5> QED BY <5>1, <1>r
      <4> QED BY <2>4, <3>1, <4>2, <4>3
    <3>3. CASE c = holder /\ stage = "sleeping"
      <4>1. waited'[c] <= Room(Number - 1) + Progress'
          BY <2>6, <3>3
      <4>2. Room(Number - 1) = Room(Number) - Longest
          BY <1>n, <1>r
      <4> QED BY <2>4, <3>1, <4>1, <4>2
    <3>4. CASE ~ (c \in ToSet(queue) \/ (c = holder /\ stage = "sleeping"))
        BY <1>q, <2>2, <3>4 DEF Queued
    <3> QED BY <3>2, <3>3, <3>4
  <2> QED BY <1>q, <2>1, <2>2, <2>5, <2>6, <2>7 DEF Queued
<1>8. CASE UNCHANGED vars
    BY <1>8, <1>q DEF vars, gateVars, ghostVars, Queued, Progress
<1>9. CASE Fails
    BY <1>4, <1>9 DEF Fails, Fail
<1>10. CASE Succeed \/ BreakOff
    BY <1>4, <1>10 DEF Succeed, BreakOff
<1> QED BY <1>1, <1>2, <1>3, <1>5, <1>6, <1>7, <1>8, <1>9, <1>10 DEF Next, Calls, Cancels

(* The pause imposed is the pause owed, and nobody waits longer than for the  *)
(* operations ahead: a cooldown never keeps a caller waiting.                 *)
THEOREM PausesAndWaits == ASSUME GateConstants PROVE Spec => []PausesAreExact
<1>1. Init => IInv
    BY PacedInit, QueuedInit DEF IInv
<1>2. IInv /\ [Next]_vars => IInv'
    BY PacedNext, QueuedNext DEF IInv
<1>3. IInv => PausesAreExact
    BY DEF IInv, Paced, Queued, PausesAreExact, TypeOK, PauseIsExact, WaitsAreShort,
           Room, Longest, Number
<1> QED BY <1>1, <1>2, <1>3, PTL DEF Spec

-------------------------------------------------------------------------------
(* The client *)

Operations ==
    [by : Refreshes, step : {"page", "post"}, attempt : 0..W!Attempts, jar : W!Jars,
     retry : BOOLEAN, posts : Nat]

(* Where an operation is tells what it has sent: the page once for the first  *)
(* request and once for its repetition.                                       *)
Budgeted ==
    op # NoOp =>
        /\ op \in Operations
        /\ op.step = "page" => /\ op.attempt >= 1
                               /\ op.posts = IF op.retry THEN 0 ELSE 1
        /\ op.step = "post" => op.posts = IF op.retry THEN 1 ELSE 2

(* Until the client is closed, a token is that of the cookies in use, and no  *)
(* token is there while the page that brings one is awaited.                  *)
Paired ==
    ~closed => /\ token # 0 => http = token
               /\ W!Loading => token = 0 /\ http = op.jar

(* While nothing malformed came: a schedule says of an instant what the       *)
(* website published then, so that of its two parts the preset is the present  *)
(* one unless that is newer than the facts, or was overtaken.                  *)
Fits(s) == site.preset <= s.fact => s.preset = site.preset \/ site.preset \in overtaken

Coherent(s) == s.fact \in 1..site.fact /\ s.preset \in 1..MaxVersion /\ Fits(s)

Known ==
    /\ site.fact \in 1..MaxVersion /\ site.preset \in 1..site.fact
    /\ raw = W!Nothing \/ Coherent(raw)
    /\ \/ cached = W!Nothing \/ Coherent(cached)
       \/ /\ cached.preset = W!Missing /\ cached.fact \in 1..site.fact
          /\ Coherent(raw) /\ cached.fact <= raw.fact
    /\ \A r \in Refreshes : refresh[r] = "update" => Coherent(candidate[r])

Genuine == malformed = 0 => Known

Browser == W!TypeOK /\ Budgeted /\ Paired

(* There is always a jar left, for a new one.                                 *)
LEMMA FreshJar ==
    ASSUME Browser
    PROVE  W!Fresh \in W!Jars
<1> DEFINE used == {token} \cup {o.jar : o \in {op} \ {NoOp}}
<1>1. PICK unused \in W!Jars : unused \notin used
    BY DEF W!Jars
<1>2. \E j \in W!Jars \ used : \A k \in W!Jars \ used : j <= k
    BY <1>1 DEF W!Jars
<1> QED BY <1>2 DEF W!Fresh, W!Min

LEMMA BrowserInit == W!Init => Browser
<1> SUFFICES ASSUME W!Init PROVE Browser
    OBVIOUS
<1> USE DEF W!Init
<1>1. site \in W!Schedules /\ W!Nothing \in W!Parts
    BY WebsiteAssumption DEF W!Schedules, W!Parts, W!Nothing, W!Missing, W!Undated
<1>2. refresh \in [Refreshes -> {"idle", "house", "update"}]
    OBVIOUS
<1>3. reading \in [Refreshes -> BOOLEAN]
    OBVIOUS
<1>4. candidate \in [Refreshes -> W!Parts]
    BY <1>1
<1>5. malformed \in 0..MaxMalformed
    BY WebsiteAssumption
<1>6. W!TypeOK
    BY <1>1, <1>2, <1>3, <1>4, <1>5 DEF W!TypeOK
<1> QED BY <1>6 DEF Browser, Budgeted, Paired, W!Loading

(* The refreshes keep their types through everything that ends a request.     *)
Refreshing ==
    /\ raw \in W!Parts /\ candidate \in [Refreshes -> W!Parts]
    /\ refresh \in [Refreshes -> {"idle", "house", "update"}]
    /\ reading \in [Refreshes -> BOOLEAN] /\ verdict \in {"failed", "verified"}

LEMMA FinishTypes ==
    ASSUME Refreshing, raw' \in W!Parts, NEW r \in Refreshes,
           NEW how \in {"failed", "verified"}, W!Finish(r, how)
    PROVE  Refreshing'
<1>1. W!Nothing \in W!Parts
    BY WebsiteAssumption DEF W!Parts, W!Nothing, W!Missing, W!Undated
<1>2. candidate' \in [Refreshes -> W!Parts]
    BY <1>1 DEF Refreshing, W!Finish
<1>3. /\ refresh' \in [Refreshes -> {"idle", "house", "update"}]
      /\ reading' \in [Refreshes -> BOOLEAN]
    BY DEF Refreshing, W!Finish
<1> QED BY <1>2, <1>3 DEF Refreshing, W!Finish

LEMMA UpdatedTypes ==
    \A old, new \in W!Parts : W!Updated(old, new) \in W!Parts
BY DEF W!Parts, W!Updated, W!Newer, W!Missing

LEMMA MergeTypes ==
    ASSUME Refreshing, cached \in W!Parts, NEW r \in Refreshes, NEW read \in BOOLEAN,
           NEW told \in W!Parts, W!Merge(r, read, told)
    PROVE  Refreshing' /\ op' = NoOp
<1> DEFINE known  == W!Updated(raw, cached)
           merged == IF read THEN W!Updated(known, told) ELSE known
           fails  == W!Missing \in {known.fact, known.preset} \/ W!Stamp(merged) = 0
<1>1. merged \in W!Parts
    BY UpdatedTypes DEF Refreshing
<1>2. CASE fails
    BY <1>2, FinishTypes DEF W!Merge, Refreshing
<1>3. CASE ~fails
  <2>1. /\ refresh' = [refresh EXCEPT ![r] = "update"]
        /\ candidate' = [candidate EXCEPT ![r] = merged]
        /\ reading' = [reading EXCEPT ![r] = read]
        /\ raw' = raw /\ verdict' = verdict /\ op' = NoOp
      BY <1>3 DEF W!Merge
  <2> HIDE DEF merged
  <2> QED BY <1>1, <2>1 DEF Refreshing
<1> QED BY <1>2, <1>3

LEMMA NothingTypes == W!Nothing \in W!Parts
BY WebsiteAssumption DEF W!Parts, W!Nothing, W!Missing, W!Undated

LEMMA FailedTypes ==
    ASSUME Refreshing, cached \in W!Parts, NEW r \in Refreshes, W!Failed(r)
    PROVE  Refreshing' /\ op' = NoOp
BY MergeTypes, FinishTypes, NothingTypes DEF W!Failed, Refreshing

LEMMA VerifyTypes ==
    ASSUME Refreshing, NEW r \in Refreshes, NEW schedule \in W!Parts, NEW sound \in BOOLEAN,
           W!Verify(r, schedule, sound)
    PROVE  Refreshing' /\ op' = NoOp
<1> DEFINE verified == sound /\ (reading[r] => W!Stamp(schedule) # 0)
<1>1. CASE verified
    BY <1>1, FinishTypes DEF W!Verify, Refreshing
<1>2. CASE ~verified
    BY <1>2, FinishTypes DEF W!Verify, Refreshing
<1> QED BY <1>1, <1>2 DEF W!Verify

(* The request of an operation, and the page before it.                       *)
Connected ==
    /\ http \in {0} \cup W!Jars /\ token \in {0} \cup W!Jars
    /\ Budgeted /\ Paired

LEMMA SendSound ==
    ASSUME Browser, NEW by \in Refreshes, NEW retry \in BOOLEAN, NEW posts \in Nat,
           posts = (IF retry THEN 0 ELSE 1),
           W!SendPost(by, retry, posts),
           token' \in {0} \cup W!Jars, closed' = closed,
           ~closed => http = token' /\ http # 0
    PROVE  Connected' /\ op'.by = by /\ (~closed => token' = op'.jar)
<1>1. W!Fresh \in W!Jars /\ http \in {0} \cup W!Jars
    BY FreshJar DEF Browser, W!TypeOK
<1>2. http' \in W!Jars /\ (http # 0 => http' = http)
    BY <1>1 DEF W!SendPost, W!EnsureHttp, W!Jars
<1>3. op' = [by |-> by, step |-> "post", attempt |-> 0, jar |-> http',
             retry |-> retry, posts |-> posts + 1]
    BY DEF W!SendPost
<1>4. op' \in Operations
    BY <1>2, <1>3 DEF Operations, W!Attempts
<1>5. Budgeted'
    BY <1>3, <1>4 DEF Budgeted, Operations
<1> QED BY <1>2, <1>3, <1>5 DEF Connected, Paired, W!Loading

LEMMA LoadSound ==
    ASSUME Browser, NEW by \in Refreshes, NEW retry \in BOOLEAN, NEW posts \in Nat,
           posts = (IF retry THEN 0 ELSE 1),
           W!LoadPage(by, retry, posts), closed' = closed
    PROVE  Connected' /\ op'.by = by /\ ~W!Posting' /\ cached' = cached
<1>1. W!Fresh \in W!Jars /\ http \in {0} \cup W!Jars
    BY FreshJar DEF Browser, W!TypeOK
<1>2. http' \in W!Jars
    BY <1>1 DEF W!LoadPage, W!EnsureHttp, W!Jars
<1>3. op' = [by |-> by, step |-> "page", attempt |-> 1, jar |-> http',
             retry |-> retry, posts |-> posts]
    BY DEF W!LoadPage
<1>4. op' \in Operations
    BY <1>2, <1>3 DEF Operations, W!Attempts
<1>5. Budgeted'
    BY <1>3, <1>4 DEF Budgeted, Operations, W!Attempts
<1>6. token' = 0 /\ cached' = cached
    BY DEF W!LoadPage
<1> QED BY <1>1, <1>2, <1>3, <1>5, <1>6 DEF Connected, Paired, W!Loading, W!Posting

LEMMA PostSound ==
    ASSUME Browser, NEW by \in Refreshes, NEW retry \in BOOLEAN, NEW posts \in Nat,
           posts = (IF retry THEN 0 ELSE 1),
           W!Post(by, retry, posts), closed' = closed
    PROVE  /\ Connected' /\ op'.by = by /\ cached' = cached
           /\ W!Posting' /\ ~closed => token' = op'.jar
<1>1. CASE token # 0
  <2>1. W!SendPost(by, retry, posts) /\ UNCHANGED <<token, cached>>
      BY <1>1 DEF W!Post
  <2>3. token' \in {0} \cup W!Jars /\ (~closed => http = token' /\ http # 0)
      BY <1>1, <2>1 DEF Browser, W!TypeOK, Paired
  <2> QED BY <2>1, <2>3, SendSound
<1>2. CASE ~(token # 0)
    BY <1>2, LoadSound DEF W!Post
<1> QED BY <1>1, <1>2
(* An operation that is over leaves nothing to be said of it.                 *)
LEMMA Over ==
    ASSUME Browser, op' = NoOp, UNCHANGED <<token, closed>>, http' \in {0} \cup W!Jars,
           ~closed /\ token # 0 => http' = http
    PROVE  Connected'
BY DEF Browser, W!TypeOK, Connected, Budgeted, Paired, W!Loading

(* The next attempt at the page.                                              *)
LEMMA NextPageSound ==
    ASSUME Browser, W!Loading, op.attempt < W!Attempts, W!NextPage, closed' = closed
    PROVE  Connected' /\ op'.by = op.by /\ ~W!Posting' /\ cached' = cached
<1>1. W!Fresh \in W!Jars /\ http \in {0} \cup W!Jars
    BY FreshJar DEF Browser, W!TypeOK
<1>2. http' \in W!Jars /\ (http # 0 => http' = http)
    BY <1>1 DEF W!NextPage, W!EnsureHttp, W!Jars
<1>3. /\ op \in Operations /\ op.step = "page" /\ op.attempt >= 1
      /\ op.posts = IF op.retry THEN 0 ELSE 1
    BY DEF Browser, Budgeted, W!Loading
<1>4. op' = [op EXCEPT !.attempt = @ + 1, !.jar = http']
    BY DEF W!NextPage
<1>5. /\ op' \in Operations /\ op'.step = "page" /\ op'.jar = http' /\ op'.by = op.by
      /\ op'.attempt = op.attempt + 1
      /\ op'.posts = op.posts /\ op'.retry = op.retry
  <2>1. /\ op.attempt + 1 \in 0..W!Attempts /\ http' \in W!Jars
      BY <1>2, <1>3 DEF Operations, W!Attempts
  <2> QED BY <1>3, <1>4, <2>1 DEF Operations
<1>6. Budgeted'
  <2>1. op.attempt \in 0..W!Attempts
      BY <1>3 DEF Operations
  <2>2. op'.attempt >= 1
      BY <1>3, <1>5, <2>1 DEF W!Attempts
  <2> QED BY <1>3, <1>5, <2>2 DEF Budgeted
<1>7. token' = token /\ cached' = cached
    BY DEF W!NextPage
<1>8. ~closed => token = 0
    BY DEF Browser, Paired
<1> QED BY <1>2, <1>5, <1>6, <1>7, <1>8 DEF Connected, Paired, W!Loading, W!Posting, Browser, W!TypeOK

(* The parts that together make the state of the client.                      *)
Whole ==
    /\ Refreshing /\ Connected
    /\ site \in W!Schedules /\ cached \in W!Parts
    /\ op # NoOp => op.by \in Refreshes /\ refresh[op.by] # "idle"
    /\ overtaken \subseteq 1..MaxVersion
    /\ closed \in BOOLEAN /\ malformed \in 0..MaxMalformed

LEMMA Parted == (Browser <=> Whole) /\ (Browser <=> Whole)'
BY DEF Browser, W!TypeOK, Refreshing, Connected, Whole

(* What the website answers.                                                  *)
LEMMA ToldTypes ==
    ASSUME NEW whole \in W!Parts, NEW told \in W!Told(whole)
    PROVE  /\ told.part \in W!Parts /\ told.bad \in {0, 1}
           /\ told.bad = 0 => told.part = whole
<1>1. \A part \in W!Parts, groups \in {W!Garbled, W!Undated} :
         [part EXCEPT !.fact = groups] \in W!Parts
    BY WebsiteAssumption DEF W!Parts, W!Garbled, W!Undated
<1>2. CASE told = [part |-> whole, bad |-> 0]
    BY <1>2
<1>3. CASE \E groups \in {W!Garbled, W!Undated} :
              told = [part |-> [whole EXCEPT !.fact = groups], bad |-> 1]
  <2>1. PICK groups \in {W!Garbled, W!Undated} :
              told = [part |-> [whole EXCEPT !.fact = groups], bad |-> 1]
      BY <1>3
  <2>2. told.part = [whole EXCEPT !.fact = groups] /\ told.bad = 1
      BY <2>1
  <2>3. told.part \in W!Parts
      BY <1>1, <2>2
  <2> QED BY <2>2, <2>3
<1> QED BY <1>2, <1>3 DEF W!Told

LEMMA PartTypes ==
    ASSUME site \in W!Schedules, NEW stamp
    PROVE  /\ site \in W!Parts
           /\ W!FactsOf(site) \in W!Parts /\ W!PresetOf(site) \in W!Parts
           /\ W!Delta(stamp) \in W!Parts
<1>1. W!FactsOf(site) \in W!Parts /\ W!PresetOf(site) \in W!Parts
    BY WebsiteAssumption DEF W!Schedules, W!Parts, W!FactsOf, W!PresetOf, W!Missing, W!Undated
<1>2. site \in W!Parts
    BY WebsiteAssumption DEF W!Schedules, W!Parts, W!Missing, W!Undated
<1> QED BY <1>1, <1>2 DEF W!Delta

LEMMA PageTypes ==
    ASSUME site \in W!Schedules, NEW told \in W!OnPage
    PROVE  /\ told.part \in W!Parts /\ told.bad \in {0, 1}
           /\ told.bad = 0 => told.part = site
BY ToldTypes, PartTypes DEF W!OnPage

LEMMA HouseTypes ==
    ASSUME site \in W!Schedules, NEW told \in W!ForHouse
    PROVE  /\ told.part \in W!Parts /\ told.bad \in {0, 1}
           /\ told.bad = 0 => told.part \in {site, W!FactsOf(site), W!PresetOf(site), W!Nothing}
BY ToldTypes, PartTypes, NothingTypes DEF W!ForHouse

(* One step keeps the budget of an operation and its token.                   *)
LEMMA BrowserNext ==
    ASSUME Browser, [W!Next]_(W!vars)
    PROVE  /\ Browser'
           /\ W!Posting' /\ op' # op /\ ~closed => token' = op'.jar
<1> USE Parted DEF Whole
<1> DEFINE Goal == Browser' /\ (W!Posting' /\ op' # op /\ ~closed => token' = op'.jar)
<1> SUFFICES Goal
    OBVIOUS
<1>0. /\ op # NoOp => op \in Operations /\ op.by \in Refreshes /\ refresh[op.by] # "idle"
      /\ W!TypeOK
    BY DEF Browser, Budgeted, W!TypeOK
(* What ends an operation, and changes no more than the schedules.            *)
<1>a. ASSUME op' = NoOp, Refreshing', UNCHANGED <<site, token, closed>>,
             overtaken' \subseteq 1..MaxVersion,
             http' \in {0} \cup W!Jars, ~closed /\ token # 0 => http' = http,
             cached' \in W!Parts, malformed' \in 0..MaxMalformed
      PROVE  Goal
    BY <1>a, Over DEF W!Posting
(* What goes on with an operation.                                            *)
<1>b. ASSUME Connected', op'.by \in Refreshes, refresh[op'.by] # "idle",
             UNCHANGED <<W!refreshVars, site, overtaken, closed>>, cached' \in W!Parts,
             malformed' \in 0..MaxMalformed,
             W!Posting' /\ op' # op /\ ~closed => token' = op'.jar
      PROVE  Goal
    BY <1>b DEF W!refreshVars, Refreshing
<1>1. CASE W!PageBreaks
  <2>1. CASE op.attempt >= W!Attempts
      BY <1>0, <1>1, <1>a, <2>1, FailedTypes
         DEF W!PageBreaks, W!worldVars, W!Loading, W!clientVars, W!TypeOK
  <2>2. CASE ~(op.attempt >= W!Attempts)
    <3>1. W!Loading /\ W!NextPage /\ UNCHANGED <<W!refreshVars, site, overtaken, closed, malformed>>
        BY <1>1, <2>2 DEF W!PageBreaks, W!worldVars
    <3>2. op.attempt < W!Attempts
        BY <1>0, <2>2, <3>1 DEF W!Loading, Operations, W!Attempts
    <3> QED BY <1>0, <1>b, <3>1, <3>2, NextPageSound DEF W!Loading, W!TypeOK
  <2> QED BY <2>1, <2>2
<1>2. ASSUME NEW hard \in BOOLEAN, W!PageChallenged(hard) PROVE Goal
  <2>1. CASE op.attempt >= W!Attempts
    <3>1. W!Loading /\ W!Failed(op.by) /\ http' \in {0, http}
          /\ UNCHANGED <<token, cached, site, overtaken, closed, malformed>>
        BY <1>2, <2>1 DEF W!PageChallenged, W!worldVars
    <3>2. ~closed => token = 0
        BY <3>1 DEF Browser, Paired
    <3> QED BY <1>0, <1>a, <3>1, <3>2, FailedTypes DEF W!Loading, W!TypeOK
  <2>2. CASE ~(op.attempt >= W!Attempts)
    <3>1. W!Loading /\ W!NextPage /\ UNCHANGED <<W!refreshVars, site, overtaken, closed, malformed>>
        BY <1>2, <2>2 DEF W!PageChallenged, W!worldVars
    <3>2. op.attempt < W!Attempts
        BY <1>0, <2>2, <3>1 DEF W!Loading, Operations, W!Attempts
    <3> QED BY <1>0, <1>b, <3>1, <3>2, NextPageSound DEF W!Loading, W!TypeOK
  <2> QED BY <2>1, <2>2
<1>3. CASE W!PageFails \/ W!PostFails
    BY <1>0, <1>3, <1>a, FailedTypes
       DEF W!PageFails, W!worldVars, W!PostFails, W!Loading, W!Posting, W!clientVars, W!TypeOK
<1>4. CASE W!PageArrives
  <2>1. /\ W!Loading /\ token' = op.jar
        /\ W!SendPost(op.by, op.retry, op.posts)
        /\ UNCHANGED <<site, overtaken, W!refreshVars, closed>>
      BY <1>4 DEF W!PageArrives
  <2>2. cached' \in W!Parts /\ malformed' \in 0..MaxMalformed
    <3>1. CASE UNCHANGED <<cached, malformed>>
        BY <1>0, <3>1 DEF W!TypeOK
    <3>2. ASSUME NEW told \in W!OnPage, malformed + told.bad <= MaxMalformed,
                 cached' = told.part, malformed' = malformed + told.bad
          PROVE  cached' \in W!Parts /\ malformed' \in 0..MaxMalformed
        BY <1>0, <3>2, PageTypes, WebsiteAssumption DEF W!TypeOK
    <3> QED BY <1>4, <3>1, <3>2 DEF W!PageArrives
  <2>3. /\ op \in Operations /\ op.step = "page"
        /\ op.posts = IF op.retry THEN 0 ELSE 1
        /\ ~closed => http = op.jar
      BY <2>1 DEF Browser, Budgeted, Paired, W!Loading
  <2>4. /\ op.retry \in BOOLEAN /\ op.posts \in Nat /\ op.by \in Refreshes
        /\ op.attempt \in 0..W!Attempts /\ op.jar \in W!Jars /\ op.jar # 0
      BY <2>3 DEF Operations, W!Jars
  <2>5. Connected' /\ op'.by = op.by /\ (~closed => token' = op'.jar)
      BY <2>1, <2>3, <2>4, SendSound
  <2> QED BY <1>0, <1>b, <2>1, <2>2, <2>5 DEF W!Loading
<1>5. CASE W!PostBreaks
  <2>1. CASE op.retry /\ W!Post(op.by, FALSE, op.posts) /\ UNCHANGED W!refreshVars
    <3>1. W!Posting /\ op \in Operations /\ op.posts = 1
        BY <1>5, <2>1 DEF W!PostBreaks, W!worldVars, W!Posting, Browser, Budgeted
    <3>2. op.by \in Refreshes /\ op.posts \in Nat
        BY <3>1 DEF Operations
    <3>3. UNCHANGED <<site, overtaken, closed, malformed>>
        BY <1>5 DEF W!PostBreaks, W!worldVars
    <3>4. /\ Connected' /\ op'.by = op.by /\ cached' = cached
          /\ W!Posting' /\ ~closed => token' = op'.jar
        BY <2>1, <3>1, <3>2, <3>3, PostSound
    <3> QED BY <1>0, <1>b, <2>1, <3>1, <3>3, <3>4 DEF W!Posting, W!TypeOK
  <2>2. CASE W!Failed(op.by) /\ UNCHANGED W!clientVars
      BY <1>0, <1>5, <1>a, <2>2, FailedTypes DEF W!PostBreaks, W!worldVars, W!Posting, W!clientVars, W!TypeOK
  <2> QED BY <1>5, <2>1, <2>2 DEF W!PostBreaks, W!worldVars
<1>6. CASE W!Rejected
  <2>1. CASE op.retry
    <3>1. W!Posting /\ op \in Operations /\ op.posts = 1
        BY <1>6, <2>1 DEF W!Rejected, W!worldVars, W!Posting, Browser, Budgeted
    <3>2. op.by \in Refreshes /\ op.posts \in Nat
        BY <3>1 DEF Operations
    <3>3. /\ UNCHANGED <<W!refreshVars, site, overtaken, closed, malformed>>
          /\ W!LoadPage(op.by, FALSE, op.posts)
        BY <1>6, <2>1 DEF W!Rejected, W!worldVars
    <3>4. Connected' /\ op'.by = op.by /\ ~W!Posting' /\ cached' = cached
        BY <3>1, <3>2, <3>3, LoadSound
    <3> QED BY <1>0, <1>b, <3>1, <3>3, <3>4 DEF W!Posting, W!TypeOK
  <2>2. CASE ~op.retry
      BY <1>0, <1>6, <1>a, <2>2, FailedTypes DEF W!Rejected, W!worldVars, W!Posting, W!clientVars, W!TypeOK
  <2> QED BY <2>1, <2>2
<1>7. CASE W!HouseAnswered
  <2>1. PICK read \in BOOLEAN, told \in W!ForHouse :
           /\ malformed' = malformed + told.bad /\ malformed' <= MaxMalformed
           /\ W!Merge(op.by, read, told.part)
           /\ overtaken' = overtaken \cup
                 {p \in {site.preset} : /\ refresh'[op.by] = "update" /\ told.part.fact # W!Missing
                                       /\ candidate'[op.by].preset # p}
      BY <1>7 DEF W!HouseAnswered
  <2>2. W!Posting /\ UNCHANGED <<site, W!clientVars, closed>>
      BY <1>7 DEF W!HouseAnswered
  <2>3. told.part \in W!Parts /\ told.bad \in {0, 1}
      BY <1>0, HouseTypes DEF W!TypeOK
  <2>4. Refreshing' /\ op' = NoOp
      BY <1>0, <2>1, <2>2, <2>3, MergeTypes DEF W!Posting, W!TypeOK
  <2>5. malformed' \in 0..MaxMalformed
      BY <1>0, <2>1, <2>3, WebsiteAssumption DEF W!TypeOK
  <2>6. overtaken' \subseteq 1..MaxVersion
      BY <1>0, <2>1 DEF W!TypeOK, W!Schedules
  <2> QED BY <1>0, <1>a, <2>2, <2>4, <2>5, <2>6 DEF W!clientVars, W!TypeOK
<1>8. CASE W!NoUpdate
  <2>1. W!Posting /\ UNCHANGED <<W!worldVars, W!clientVars>>
      BY <1>8 DEF W!NoUpdate
  <2>2. PICK sound \in BOOLEAN : W!Verify(op.by, candidate[op.by], sound)
      BY <1>8 DEF W!NoUpdate
  <2>3. op.by \in Refreshes /\ candidate[op.by] \in W!Parts
      BY <1>0, <2>1 DEF W!Posting, W!TypeOK
  <2>4. Refreshing' /\ op' = NoOp
      BY <2>2, <2>3, VerifyTypes
  <2> QED BY <1>0, <1>a, <2>1, <2>4 DEF W!worldVars, W!clientVars, W!TypeOK
<1>9. CASE W!Update
  <2> DEFINE delta == W!Delta(W!Stamp(candidate[op.by]))
  <2>1. W!Posting /\ UNCHANGED <<site, overtaken, http, token, closed>>
      BY <1>9 DEF W!Update
  <2>2. PICK told \in W!Told(delta), sound \in W!Unsound :
           /\ malformed + told.bad <= MaxMalformed
           /\ malformed' = IF sound THEN malformed + told.bad ELSE malformed + 1
           /\ cached' = told.part
           /\ W!Verify(op.by, W!Updated(candidate[op.by], told.part), sound)
      BY <1>9 DEF W!Update
  <2>3. told.part \in W!Parts /\ told.bad \in {0, 1}
      BY <1>0, PartTypes, ToldTypes DEF W!TypeOK
  <2>4. sound \in BOOLEAN /\ malformed' \in 0..MaxMalformed
    <3>1. CASE sound
      <4>1. sound \in BOOLEAN /\ malformed' = malformed + told.bad
          BY <2>2, <3>1 DEF W!Unsound
      <4> QED BY <1>0, <2>2, <2>3, <4>1, WebsiteAssumption DEF W!TypeOK
    <3>2. CASE ~sound
      <4>1. sound = FALSE /\ malformed < MaxMalformed /\ malformed' = malformed + 1
          BY <2>2, <3>2 DEF W!Unsound
      <4>2. malformed \in 0..MaxMalformed
          BY <1>0 DEF W!TypeOK
      <4>3. malformed + 1 \in 0..MaxMalformed
          BY ONLY <4>1, <4>2, WebsiteAssumption
      <4> QED BY <4>1, <4>3
    <3> QED BY <3>1, <3>2
  <2>5. op.by \in Refreshes /\ W!Updated(candidate[op.by], told.part) \in W!Parts
      BY <1>0, <2>1, <2>3, UpdatedTypes DEF W!Posting, W!TypeOK
  <2>6. Refreshing' /\ op' = NoOp
      BY <2>2, <2>4, <2>5, VerifyTypes
  <2> QED BY <1>0, <1>a, <2>1, <2>2, <2>3, <2>4, <2>6 DEF W!TypeOK
<1>10. ASSUME NEW r \in Refreshes, W!Enter(r) PROVE Goal
  <2>1. /\ refresh[r] # "idle" /\ W!Post(r, TRUE, 0)
        /\ UNCHANGED <<site, overtaken, W!refreshVars, closed, malformed>>
      BY <1>10 DEF W!Enter, W!worldVars
  <2>2. /\ Connected' /\ op'.by = r /\ cached' = cached
        /\ W!Posting' /\ ~closed => token' = op'.jar
    <3>1. closed' = closed /\ TRUE \in BOOLEAN /\ 0 \in Nat
        BY <2>1
    <3>2. 0 = (IF TRUE THEN 0 ELSE 1)
        OBVIOUS
    <3> QED BY <2>1, <3>1, <3>2, PostSound
  <2> QED BY <1>0, <1>b, <2>1, <2>2 DEF W!TypeOK
<1>11. ASSUME NEW r \in Refreshes, W!TurnedAway(r) PROVE Goal
    BY <1>0, <1>11, <1>a, FailedTypes DEF W!TurnedAway, W!worldVars, W!clientVars, W!TypeOK
<1>12. CASE W!Publish
  <2>1. site' \in W!Schedules
      BY <1>0, <1>12, WebsiteAssumption DEF W!Publish, W!TypeOK, W!Schedules
  <2> QED BY <1>12, <2>1 DEF W!Publish, W!worldVars, W!clientVars, W!refreshVars, Refreshing, Connected,
             Budgeted, Paired, W!Loading
<1>13. CASE W!Age
    BY <1>13 DEF W!Age, W!worldVars, W!refreshVars, Refreshing, Connected, Budgeted, Paired, W!Loading
<1>14. CASE W!Close
    BY <1>14 DEF W!Close, W!worldVars, W!refreshVars, Refreshing, Connected, Budgeted, Paired, W!Loading
<1>15. ASSUME NEW r \in Refreshes, W!Start(r) PROVE Goal
  <2>1. /\ refresh' = [refresh EXCEPT ![r] = "house"]
        /\ verdict' = "failed"
        /\ UNCHANGED <<W!worldVars, W!clientVars, op, reading, candidate, raw>>
      BY <1>15 DEF W!Start, W!worldVars
  <2>2. /\ refresh' \in [Refreshes -> {"idle", "house", "update"}]
        /\ op # NoOp => refresh'[op.by] # "idle"
      BY <1>0, <2>1 DEF W!TypeOK
  <2> QED BY <2>1, <2>2
             DEF W!worldVars, W!clientVars, Refreshing, Connected, Budgeted, Paired, W!Loading
<1>16. ASSUME NEW r \in Refreshes, W!Cancel(r) PROVE Goal
  <2>1. /\ op' = IF op # NoOp /\ op.by = r THEN NoOp ELSE op
        /\ W!Finish(r, "failed")
        /\ UNCHANGED <<site, overtaken, W!clientVars, raw, closed, malformed>>
      BY <1>16 DEF W!Cancel, W!worldVars
  <2>2. Refreshing'
      BY <2>1, FinishTypes DEF Refreshing
  <2>3. CASE op # NoOp /\ op.by = r
      BY <1>0, <1>a, <2>1, <2>2, <2>3 DEF W!clientVars, W!TypeOK
  <2>4. CASE ~(op # NoOp /\ op.by = r)
    <3>1. op' = op /\ (op # NoOp => refresh'[op.by] # "idle")
        BY <1>0, <2>1, <2>4 DEF W!Finish, W!TypeOK
    <3> QED BY <2>1, <2>2, <3>1 DEF W!clientVars, Connected, Budgeted, Paired, W!Loading
  <2> QED BY <2>3, <2>4
<1>17. CASE UNCHANGED W!vars
    BY <1>17 DEF W!vars, W!worldVars, W!clientVars, W!refreshVars, Refreshing, Connected, Budgeted, Paired, W!Loading
<1> HIDE DEF Goal
<1>18. CASE W!Requests
    BY <1>1, <1>2, <1>3, <1>4, <1>5, <1>6, <1>7, <1>8, <1>9, <1>18 DEF W!Requests
<1>19. CASE W!Gate
    BY <1>10, <1>11, <1>19 DEF W!Gate
<1> QED BY <1>12, <1>13, <1>14, <1>15, <1>16, <1>17, <1>18, <1>19 DEF W!Next

(* For any number of refreshes: whatever the website answers, an operation    *)
(* sends its request at most twice and loads the page at most twice, each     *)
(* time in at most three attempts, and a token goes with the cookies it was   *)
(* issued with.                                                               *)
THEOREM RequestsStaySound == W!Spec => RequestsAreSound
<1>1. W!Init => Browser
    BY BrowserInit
<1>2. Browser /\ [W!Next]_(W!vars) => Browser'
    BY BrowserNext
<1>3. Browser /\ Browser' /\ [W!Next]_(W!vars) =>
         [/\ W!TypeOK' /\ W!Bounded'
          /\ W!Posting' /\ op' # op /\ ~closed => token' = op'.jar]_(W!vars)
  <2> SUFFICES ASSUME Browser, Browser', [W!Next]_(W!vars)
               PROVE  /\ W!TypeOK' /\ W!Bounded'
                      /\ W!Posting' /\ op' # op /\ ~closed => token' = op'.jar
      OBVIOUS
  <2>1. W!Bounded'
      BY DEF Browser, Budgeted, Operations, W!Bounded, W!Attempts
  <2> QED BY <2>1, BrowserNext DEF Browser
<1> QED BY <1>1, <1>2, <1>3, PTL DEF W!Spec, RequestsAreSound, W!RequestsAreSound
-------------------------------------------------------------------------------
(* What a refresh reports as verified when it ends is what is published, the   *)
(* preset perhaps being one that was overtaken.                               *)
Current ==
    \A r \in Refreshes :
       refresh[r] # "idle" /\ refresh'[r] = "idle" /\ verdict' = "verified" =>
           /\ raw'.fact = site.fact
           /\ raw'.preset = site.preset \/ site.preset \in overtaken

LEMMA KnownTogether ==
    ASSUME Known, Browser
    PROVE  LET known == W!Updated(raw, cached)
           IN  \/ W!Missing \in {known.fact, known.preset}
               \/ Coherent(known)
BY DEF Known, Browser, W!TypeOK, Fits, Coherent, W!Updated, W!Newer, W!Nothing, W!Missing, W!Parts

LEMMA FinishKnown ==
    ASSUME Known, Browser, NEW r \in Refreshes, W!Finish(r, "failed"),
           UNCHANGED <<site, cached, raw, overtaken>>
    PROVE  Known' /\ Current
<1>1. refresh' = [refresh EXCEPT ![r] = "idle"] /\ verdict' = "failed"
      /\ candidate' = [candidate EXCEPT ![r] = W!Nothing]
    BY DEF W!Finish
<1>2. \A q \in Refreshes : refresh'[q] = "update" =>
                              refresh[q] = "update" /\ candidate'[q] = candidate[q]
    BY <1>1 DEF Browser, W!TypeOK
<1> QED BY <1>1, <1>2 DEF Known, Fits, Coherent, Current

(* Presets that are overtaken leave what was known as it is.                  *)
LEMMA MergeKnown ==
    ASSUME Known, Browser, NEW r \in Refreshes, NEW read \in BOOLEAN, NEW told,
           told \in {site, W!FactsOf(site), W!PresetOf(site), W!Nothing},
           W!Merge(r, read, told), UNCHANGED <<site, cached>>,
           overtaken \subseteq overtaken',
           \/ refresh'[r] # "update" \/ told.fact = W!Missing
           \/ candidate'[r].preset = site.preset \/ site.preset \in overtaken',
           refresh'[r] # "update" => overtaken' = overtaken
    PROVE  Known' /\ Current
<1> DEFINE known  == W!Updated(raw, cached)
           merged == IF read THEN W!Updated(known, told) ELSE known
           fails  == W!Missing \in {known.fact, known.preset} \/ W!Stamp(merged) = 0
<1>0. r \in DOMAIN refresh /\ r \in DOMAIN candidate
    BY DEF Browser, W!TypeOK
<1>1. CASE fails
  <2>1. W!Finish(r, "failed") /\ UNCHANGED raw
      BY <1>1 DEF W!Merge
  <2>2. refresh'[r] # "update"
      BY <1>0, <2>1 DEF W!Finish
  <2> QED BY <2>1, <2>2, FinishKnown
<1>2. CASE ~fails
  <2>1. PICK old, new : old = known /\ new = merged
      OBVIOUS
  <2>2. Coherent(old)
      BY <1>2, <2>1, KnownTogether
  <2>3. new = IF read THEN W!Updated(old, told) ELSE old
      BY <2>1
  <2>4. /\ refresh' = [refresh EXCEPT ![r] = "update"]
        /\ candidate' = [candidate EXCEPT ![r] = new]
        /\ raw' = raw
      BY <1>2, <2>1 DEF W!Merge
  <2> HIDE DEF known, merged
  <2>5. refresh'[r] = "update" /\ candidate'[r] = new
      BY <1>0, <2>4
  <2>6. /\ new.fact \in 1..site.fact /\ new.preset \in 1..MaxVersion
        /\ site.preset <= new.fact => new.preset = site.preset \/ site.preset \in overtaken'
    <3> USE <2>2, <2>3, <2>5 DEF Coherent, Fits, Known, W!Updated, W!Newer, W!Missing
    <3>s. site \in W!Schedules
        BY DEF Browser, W!TypeOK
    <3>1. CASE ~read
        BY <3>1
    <3>2. CASE read /\ told = site
        BY <3>2, <3>s DEF W!Schedules
    <3>3. CASE read /\ told = W!FactsOf(site)
        BY <3>3, <3>s DEF W!FactsOf, W!Schedules
    <3>4. CASE read /\ told = W!PresetOf(site)
        BY <3>4, <3>s DEF W!PresetOf, W!Schedules
    <3>5. CASE read /\ told = W!Nothing
        BY <3>5 DEF W!Nothing
    <3> QED BY <3>1, <3>2, <3>3, <3>4, <3>5
  <2>7. \A s : Coherent(s) => Coherent(s)'
      BY DEF Coherent, Fits
  <2>8. \A q \in Refreshes : /\ refresh'[q] = "update" =>
                                  \/ candidate'[q] = new
                                  \/ refresh[q] = "update" /\ candidate'[q] = candidate[q]
                             /\ refresh'[q] = "idle" => refresh[q] = "idle"
      BY <2>4 DEF Browser, W!TypeOK
  <2>9. Coherent(new)'
      BY <2>6 DEF Coherent, Fits
  <2>10. Current
      BY <2>8 DEF Current
  <2>11. \A q \in Refreshes : refresh'[q] = "update" => Coherent(candidate[q])'
      BY <2>7, <2>8, <2>9 DEF Known, Coherent, Fits
  <2>12. raw' = W!Nothing \/ Coherent(raw)'
      BY <2>4, <2>7 DEF Known, Coherent, Fits
  <2>13. \/ cached' = W!Nothing \/ Coherent(cached)'
         \/ /\ cached'.preset = W!Missing /\ cached'.fact \in 1..site'.fact
            /\ Coherent(raw)' /\ cached'.fact <= raw'.fact
      BY <2>4, <2>7 DEF Known, Coherent, Fits
  <2> QED BY <2>10, <2>11, <2>12, <2>13 DEF Known
<1> QED BY <1>1, <1>2

LEMMA FailedKnown ==
    ASSUME Known, Browser, NEW r \in Refreshes, W!Failed(r), UNCHANGED <<site, cached, overtaken>>
    PROVE  Known' /\ Current
<1>1. CASE refresh[r] = "house"
  <2>1. W!Merge(r, FALSE, W!Nothing) /\ W!Nothing.fact = W!Missing
      BY <1>1 DEF W!Failed, W!Nothing
  <2>2. /\ W!Nothing \in {site, W!FactsOf(site), W!PresetOf(site), W!Nothing}
        /\ FALSE \in BOOLEAN /\ site' = site /\ cached' = cached /\ overtaken' = overtaken
      OBVIOUS
  <2> HIDE DEF W!Nothing
  <2> QED BY <2>1, <2>2, MergeKnown
<1>2. CASE refresh[r] # "house"
    BY <1>2, FinishKnown DEF W!Failed
<1> QED BY <1>1, <1>2

(* The schedule put together after an answer about the changes.               *)
LEMMA VerifyKnown ==
    ASSUME Known, Browser, NEW r \in Refreshes, NEW schedule, W!Verify(r, schedule, TRUE),
           schedule.fact = site.fact, Coherent(schedule), UNCHANGED <<site, overtaken>>,
           cached' \in {cached, site, W!FactsOf(site)}
    PROVE  Known' /\ Current
<1>1. raw' = schedule /\ \E how : W!Finish(r, how)
    BY DEF W!Verify, W!Stamp, Known, W!Garbled, W!Undated
<1>2. Coherent(raw)' /\ raw'.fact = site.fact
    BY <1>1 DEF Coherent, Fits
<1>3. refresh' = [refresh EXCEPT ![r] = "idle"]
      /\ candidate' = [candidate EXCEPT ![r] = W!Nothing]
    BY <1>1 DEF W!Finish
<1>4. \A q \in Refreshes : refresh'[q] = "update" =>
                              refresh[q] = "update" /\ candidate'[q] = candidate[q]
    BY <1>3 DEF Browser, W!TypeOK
<1>5. cached' = W!Nothing \/ Coherent(cached)'
      \/ /\ cached'.preset = W!Missing /\ cached'.fact \in 1..site.fact
         /\ cached'.fact <= site.fact
  <2>1. CASE cached' = cached
      BY <2>1 DEF Known, Coherent, Fits
  <2>2. CASE cached' = site
      BY <2>2, WebsiteAssumption DEF Known, Coherent, Fits
  <2>3. CASE cached' = W!FactsOf(site)
      BY <2>3, WebsiteAssumption DEF Known, W!FactsOf, Browser, W!TypeOK, W!Schedules
  <2> QED BY <2>1, <2>2, <2>3
<1>6. raw'.preset = site.preset \/ site.preset \in overtaken
    BY <1>1 DEF Coherent, Fits, Known
<1> QED BY <1>1, <1>2, <1>4, <1>5, <1>6 DEF Known, Coherent, Fits, Current

LEMMA VerifiedNext ==
    ASSUME Browser, Genuine, [W!Next]_(W!vars)
    PROVE  malformed' = 0 => Known' /\ Current
<1> SUFFICES ASSUME malformed' = 0 PROVE Known' /\ Current
    OBVIOUS
<1>0. /\ op # NoOp => op.by \in Refreshes /\ refresh[op.by] # "idle"
      /\ malformed \in Nat /\ refresh \in [Refreshes -> {"idle", "house", "update"}]
      /\ site \in W!Schedules
    BY WebsiteAssumption DEF Browser, W!TypeOK
(* What touches neither the schedules nor the refreshes.                      *)
<1>a. ASSUME UNCHANGED <<site, overtaken, cached, raw, candidate, refresh, malformed>>
      PROVE  Known' /\ Current
    BY <1>a DEF Genuine, Known, Coherent, Fits, Current
(* What ends a request with a failure.                                        *)
<1>b. ASSUME NEW r \in Refreshes, W!Failed(r), UNCHANGED <<site, overtaken, cached, malformed>>
      PROVE  Known' /\ Current
    BY <1>b, FailedKnown DEF Genuine
<1>1. CASE W!PageBreaks
  <2>1. CASE op.attempt >= W!Attempts
      BY <1>0, <1>1, <1>b, <2>1 DEF W!PageBreaks, W!worldVars, W!Loading, W!clientVars
  <2>2. CASE ~(op.attempt >= W!Attempts)
      BY <1>1, <1>a, <2>2 DEF W!PageBreaks, W!worldVars, W!NextPage, W!refreshVars
  <2> QED BY <2>1, <2>2
<1>2. ASSUME NEW hard \in BOOLEAN, W!PageChallenged(hard) PROVE Known' /\ Current
  <2>1. CASE op.attempt >= W!Attempts
      BY <1>0, <1>2, <1>b, <2>1 DEF W!PageChallenged, W!worldVars, W!Loading
  <2>2. CASE ~(op.attempt >= W!Attempts)
      BY <1>2, <1>a, <2>2 DEF W!PageChallenged, W!worldVars, W!NextPage, W!refreshVars
  <2> QED BY <2>1, <2>2
<1>3. CASE W!PageFails \/ W!PostFails
    BY <1>0, <1>3, <1>b DEF W!PageFails, W!worldVars, W!PostFails, W!Loading, W!Posting, W!clientVars
<1>4. CASE W!PageArrives
  <2>1. UNCHANGED <<site, overtaken, raw, candidate, refresh>>
      BY <1>4 DEF W!PageArrives, W!refreshVars
  <2>2. CASE UNCHANGED <<cached, malformed>>
      BY <1>a, <2>1, <2>2
  <2>3. ASSUME NEW told \in W!OnPage, cached' = told.part, malformed' = malformed + told.bad
        PROVE  Known' /\ Current
    <3>1. told.bad \in {0, 1}
        BY <1>0, PageTypes
    <3>2. malformed = 0 /\ told.bad = 0
        BY <1>0, <2>3, <3>1
    <3>3. cached' = site
        BY <1>0, <2>3, <3>2, PageTypes
    <3> QED BY <2>1, <3>2, <3>3, WebsiteAssumption DEF Genuine, Known, Coherent, Fits, Current
  <2> QED BY <1>4, <2>2, <2>3 DEF W!PageArrives
<1>5. CASE W!PostBreaks
  <2>1. CASE W!Post(op.by, FALSE, op.posts) /\ UNCHANGED W!refreshVars
      BY <1>5, <1>a, <2>1 DEF W!PostBreaks, W!worldVars, W!Post, W!LoadPage, W!refreshVars
  <2>2. CASE W!Failed(op.by) /\ UNCHANGED W!clientVars
      BY <1>0, <1>5, <1>b, <2>2 DEF W!PostBreaks, W!worldVars, W!Posting, W!clientVars
  <2> QED BY <1>5, <2>1, <2>2 DEF W!PostBreaks, W!worldVars
<1>6. CASE W!Rejected
  <2>1. CASE op.retry
      BY <1>6, <1>a, <2>1 DEF W!Rejected, W!worldVars, W!LoadPage, W!refreshVars
  <2>2. CASE ~op.retry
      BY <1>0, <1>6, <1>b, <2>2 DEF W!Rejected, W!worldVars, W!Posting, W!clientVars
  <2> QED BY <2>1, <2>2
<1>7. CASE W!HouseAnswered
  <2>1. PICK read \in BOOLEAN, told \in W!ForHouse :
           /\ malformed' = malformed + told.bad
           /\ W!Merge(op.by, read, told.part)
           /\ overtaken' = overtaken \cup
                 {p \in {site.preset} : /\ refresh'[op.by] = "update" /\ told.part.fact # W!Missing
                                       /\ candidate'[op.by].preset # p}
      BY <1>7 DEF W!HouseAnswered
  <2>2. op.by \in Refreshes /\ UNCHANGED <<site, cached>>
      BY <1>0, <1>7 DEF W!HouseAnswered, W!Posting, W!clientVars
  <2>3. told.bad \in {0, 1}
      BY <1>0, HouseTypes
  <2>4. malformed = 0 /\ told.bad = 0
      BY <1>0, <2>1, <2>3
  <2>5. PICK part : part = told.part
      OBVIOUS
  <2>6. part \in {site, W!FactsOf(site), W!PresetOf(site), W!Nothing}
      BY <1>0, <2>4, <2>5, HouseTypes
  <2>7. /\ overtaken \subseteq overtaken'
        /\ \/ refresh'[op.by] # "update" \/ part.fact = W!Missing
           \/ candidate'[op.by].preset = site.preset \/ site.preset \in overtaken'
        /\ refresh'[op.by] # "update" => overtaken' = overtaken
      BY <2>1, <2>5
  <2>8. Known
      BY <2>4 DEF Genuine
  <2> QED BY <2>1, <2>2, <2>5, <2>6, <2>7, <2>8, MergeKnown
<1>8. CASE W!NoUpdate
  <2>1. /\ W!Posting /\ refresh[op.by] = "update" /\ W!Stamp(candidate[op.by]) = site.fact
        /\ UNCHANGED <<site, overtaken, cached, malformed>>
      BY <1>8 DEF W!NoUpdate, W!worldVars, W!clientVars
  <2>2. PICK sound \in BOOLEAN : W!Verify(op.by, candidate[op.by], sound)
      BY <1>8 DEF W!NoUpdate
  <2>3. Known /\ op.by \in Refreshes /\ Coherent(candidate[op.by])
      BY <1>0, <2>1 DEF W!Posting, Genuine, Known
  <2>4. candidate[op.by].fact = site.fact
      BY <2>1, <2>3 DEF W!Stamp, Coherent, Known, W!Garbled, W!Undated
  <2>5. CASE sound
      BY <2>1, <2>2, <2>3, <2>4, <2>5, VerifyKnown
  <2>6. CASE ~sound
    <3>1. W!Finish(op.by, "failed") /\ UNCHANGED raw
        BY <2>2, <2>6 DEF W!Verify
    <3> QED BY <2>1, <2>3, <3>1, FinishKnown
  <2> QED BY <2>5, <2>6
<1>9. CASE W!Update
  <2>1. W!Posting /\ refresh[op.by] = "update" /\ UNCHANGED <<site, overtaken>>
      BY <1>9 DEF W!Update
  <2>2. PICK told \in W!Told(W!Delta(W!Stamp(candidate[op.by]))), sound \in W!Unsound :
           /\ malformed' = IF sound THEN malformed + told.bad ELSE malformed + 1
           /\ cached' = told.part
           /\ W!Verify(op.by, W!Updated(candidate[op.by], told.part), sound)
      BY <1>9 DEF W!Update
  <2>3. PICK old, delta : old = candidate[op.by] /\ delta = W!Delta(W!Stamp(old))
      OBVIOUS
  <2>4. told.bad \in {0, 1} /\ (told.bad = 0 => told.part = delta)
      BY <1>0, <2>2, <2>3, PartTypes, ToldTypes
  <2>5. sound = TRUE /\ malformed = 0 /\ told.part = delta
      BY <1>0, <2>2, <2>4 DEF W!Unsound
  <2>6. Known /\ op.by \in Refreshes /\ Coherent(old)
      BY <1>0, <2>1, <2>3, <2>5 DEF W!Posting, Genuine, Known
  <2>7. W!Stamp(old) = old.fact
      BY <2>6 DEF W!Stamp, Coherent, Known, W!Garbled, W!Undated
  <2>8. PICK schedule : schedule = W!Updated(old, delta)
      OBVIOUS
  <2>9. schedule.fact = site.fact /\ Coherent(schedule)
    <3>1. CASE site.preset > old.fact
      <4>1. delta = site
          BY <2>3, <2>7, <3>1 DEF W!Delta
      <4> QED BY <1>0, <2>6, <2>8, <4>1
              DEF W!Updated, W!Newer, W!Missing, W!Schedules, Known, Coherent, Fits
    <3>2. CASE ~(site.preset > old.fact)
      <4>1. delta = W!FactsOf(site)
          BY <2>3, <2>7, <3>2 DEF W!Delta
      <4>2. delta.fact = site.fact /\ delta.preset = W!Missing
          BY <1>0, <4>1 DEF W!FactsOf, W!Schedules
      <4> QED BY <1>0, <2>6, <2>8, <3>2, <4>2
              DEF W!Updated, W!Newer, W!Missing, W!Schedules, Known, Coherent, Fits
    <3> QED BY <3>1, <3>2
  <2>10. cached' \in {cached, site, W!FactsOf(site)}
      BY <2>2, <2>3, <2>5 DEF W!Delta
  <2> QED BY <2>1, <2>2, <2>3, <2>5, <2>6, <2>8, <2>9, <2>10, VerifyKnown
<1>10. ASSUME NEW r \in Refreshes, W!Enter(r) PROVE Known' /\ Current
    BY <1>10, <1>a DEF W!Enter, W!worldVars, W!Post, W!LoadPage, W!refreshVars
<1>11. ASSUME NEW r \in Refreshes, W!TurnedAway(r) PROVE Known' /\ Current
    BY <1>11, <1>b DEF W!TurnedAway, W!worldVars, W!clientVars
<1>12. CASE W!Publish
  <2>1. /\ UNCHANGED <<overtaken, cached, raw, candidate, refresh, malformed>>
        /\ site'.fact = site.fact + 1 /\ site'.preset \in {site.preset, site.fact + 1}
        /\ site.fact < MaxVersion
      BY <1>12 DEF W!Publish, W!worldVars, W!clientVars, W!refreshVars
  <2>2. Known
      BY <2>1 DEF Genuine
  <2>3. site'.fact \in 1..MaxVersion /\ site'.preset \in 1..site'.fact
      BY <2>1, <2>2, WebsiteAssumption DEF Known
  <2>4. \A s : Coherent(s) => /\ s.fact \in 1..site'.fact /\ s.preset \in 1..MaxVersion
                              /\ site'.preset <= s.fact =>
                                    s.preset = site'.preset \/ site'.preset \in overtaken
      BY <2>1, <2>2, WebsiteAssumption DEF Known, Coherent, Fits
  <2>5. 1..site.fact \subseteq 1..site'.fact
      BY <2>1, <2>2, WebsiteAssumption DEF Known
  <2> QED BY <2>1, <2>2, <2>3, <2>4, <2>5 DEF Known, Coherent, Fits, Current
<1>13. CASE W!Age \/ W!Close
    BY <1>13, <1>a DEF W!Age, W!worldVars, W!Close, W!refreshVars
<1>14. ASSUME NEW r \in Refreshes, W!Start(r) PROVE Known' /\ Current
  <2>1. /\ refresh' = [refresh EXCEPT ![r] = "house"]
        /\ verdict' = "failed" /\ UNCHANGED <<site, overtaken, cached, raw, candidate, malformed>>
      BY <1>14 DEF W!Start, W!worldVars, W!clientVars
  <2>2. \A q \in Refreshes : /\ refresh'[q] = "update" => refresh[q] = "update"
                             /\ refresh'[q] = "idle" => refresh[q] = "idle"
      BY <1>0, <2>1
  <2> QED BY <2>1, <2>2 DEF Genuine, Known, Coherent, Fits, Current
<1>15. ASSUME NEW r \in Refreshes, W!Cancel(r) PROVE Known' /\ Current
    BY <1>15, FinishKnown DEF W!Cancel, W!worldVars, W!clientVars, Genuine
<1>16. CASE UNCHANGED W!vars
    BY <1>16, <1>a DEF W!vars, W!worldVars, W!clientVars, W!refreshVars
<1>17. CASE W!Requests
    BY <1>1, <1>2, <1>3, <1>4, <1>5, <1>6, <1>7, <1>8, <1>9, <1>17 DEF W!Requests
<1>18. CASE W!Gate
    BY <1>10, <1>11, <1>18 DEF W!Gate
<1> QED BY <1>12, <1>13, <1>14, <1>15, <1>16, <1>17, <1>18 DEF W!Next

(* For any number of refreshes, versions and renewed sessions: until          *)
(* something malformed comes, the facts that a refresh reports as verified    *)
(* are those that the website publishes at that instant, and so is the preset *)
(* but for one that a house's answer told newer facts without.                *)
THEOREM VerifiedStaysCurrent == W!Spec => VerifiedIsCurrent
<1>1. W!Init => Browser /\ Genuine
    BY BrowserInit, WebsiteAssumption DEF W!Init, Genuine, Known
<1>2. Browser /\ Genuine /\ [W!Next]_(W!vars) => Browser' /\ Genuine'
    BY BrowserNext, VerifiedNext DEF Genuine
<1>3. Browser /\ Genuine /\ [W!Next]_(W!vars) =>
         [malformed' = 0 =>
             \A r \in Refreshes :
                refresh[r] # "idle" /\ refresh'[r] = "idle" /\ verdict' = "verified" =>
                    /\ raw'.fact = site.fact
                    /\ raw'.preset = site.preset \/ site.preset \in overtaken]_(W!vars)
    BY VerifiedNext DEF Current
<1> QED BY <1>1, <1>2, <1>3, PTL DEF W!Spec, VerifiedIsCurrent, W!VerifiedIsCurrent

================================================================================
