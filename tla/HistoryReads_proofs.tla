-------------------------- MODULE HistoryReads_proofs --------------------------
(* Proofs about HistoryReads, for any accounts, readers, sizes of the cache   *)
(* and number of submissions: nothing cached is older than an answered        *)
(* submission, and a readback is truthful.                                    *)
EXTENDS HistoryReads, SequenceTheorems, TLAPS

Entries == [key : Keys, rows : SUBSET Attempts, partial : BOOLEAN, age : Ages]

Asked == [kind : {"card", "bot"}, number : Accounts, todo : Seq(Years), force : BOOLEAN,
          maxAge : Nat, attempt : Results \cup {NoAttempt}, live : BOOLEAN,
          looked : BOOLEAN, rows : SUBSET Attempts]

Distinct(s) == \A i, j \in DOMAIN s : s[i].key = s[j].key => i = j

Submitted ==
    /\ book \in [Accounts -> SUBSET Attempts] /\ late \subseteq Accounts \X Attempts
    /\ post \in Posts \cup {NoPost}
    /\ journal \in [Accounts -> Results \cup {NoAttempt}]
    /\ answered \in [Accounts -> SUBSET Attempts] /\ sent \in 0..MaxAttempts

Cached ==
    /\ cache \in Seq(Entries) /\ Len(cache) <= CacheSize /\ Distinct(cache)
    /\ recent \in Seq(Keys) /\ Len(recent) <= LimitSize
    /\ blocked \in BOOLEAN /\ read \in Reads \cup {NoRead}

Shape ==
    /\ Submitted /\ Cached /\ allowed \in BOOLEAN
    /\ op \in [Readers -> Asked \cup {Idle, Shown}]

(* A generation for each submission that was answered since the last load.    *)
Counted ==
    /\ generation \in 0..MaxAttempts
    /\ generation + (IF post = NoPost THEN 0 ELSE 1) <= sent
    /\ read # NoRead => read.generation <= generation

(* The cabinet forgets nothing.                                               *)
Recorded ==
    /\ \A n \in Accounts : answered[n] \subseteq book[n]
    /\ post # NoPost /\ post.handled => post.id \in book[post.number]

(* An accepted attempt was recorded when its confirmation returned.           *)
Settled(n, attempt, known) == Accepted(attempt) => attempt.id \in known[n]

Journalled == \A n \in Accounts : Settled(n, journal[n], answered)

(* What is cached, and what a read of this generation has found.              *)
Fresh ==
    /\ \A e \in Range(cache) : e.key[2] = "this" => answered[e.key[1]] \subseteq e.rows
    /\ read # NoRead /\ read.pages = 1 /\ read.generation = generation /\ read.key[2] = "this"
          => answered[read.key[1]] \subseteq read.rows

(* A reader that has seen this year has seen its accepted attempt.            *)
HasSeen(o, known) ==
    /\ Settled(o.number, o.attempt, known)
    /\ Accepted(o.attempt) /\ o.live /\ "this" \notin Range(o.todo) => o.attempt.id \in o.rows

Asking ==
    /\ read # NoRead => Waiting(read.by) /\ Key(op[read.by]) = read.key
    /\ \A r \in Readers : op[r] \notin {Idle, Shown} => HasSeen(op[r], answered)

IInv == Shape /\ Counted /\ Recorded /\ Journalled /\ Fresh /\ Asking

-------------------------------------------------------------------------------
(* Sequences: an element is removed, and only the newest are kept.            *)
LEMMA RemovedAt ==
    ASSUME NEW S, NEW s \in Seq(S), NEW i \in DOMAIN s
    PROVE  /\ RemoveAt(s, i) \in Seq(S) /\ Len(RemoveAt(s, i)) = Len(s) - 1
           /\ \A j \in 1..(Len(s) - 1) : RemoveAt(s, i)[j] = s[IF j < i THEN j ELSE j + 1]
<1> DEFINE q == RemoveAt(s, i)
           before == SubSeq(s, 1, i - 1)
           after  == SubSeq(s, i + 1, Len(s))
<1>1. Len(s) \in Nat /\ i \in 1..Len(s)
    OBVIOUS
<1>2. /\ before \in Seq(S) /\ Len(before) = i - 1
      /\ \A j \in 1..(i - 1) : before[j] = s[j]
    BY <1>1
<1>3. /\ after \in Seq(S) /\ Len(after) = Len(s) - i
      /\ \A j \in 1..(Len(s) - i) : after[j] = s[i + j]
    BY <1>1
<1>4. q = before \o after
    BY DEF RemoveAt
<1> HIDE DEF q, before, after
<1>5. /\ q \in Seq(S) /\ Len(q) = Len(before) + Len(after)
      /\ \A j \in 1..(Len(before) + Len(after)) :
            q[j] = IF j <= Len(before) THEN before[j] ELSE after[j - Len(before)]
    BY <1>2, <1>3, <1>4, ConcatProperties, Zenon
<1>6. Len(q) = Len(s) - 1
    BY <1>1, <1>2, <1>3, <1>5
<1>7. ASSUME NEW j \in 1..(Len(s) - 1) PROVE q[j] = s[IF j < i THEN j ELSE j + 1]
  <2> j \in 1..(Len(before) + Len(after)) /\ j \in Int /\ Len(before) = i - 1
      BY <1>1, <1>2, <1>3, <1>7
  <2>0. q[j] = IF j <= Len(before) THEN before[j] ELSE after[j - Len(before)]
      BY <1>5
  <2>1. CASE j < i
    <3>1. j \in 1..(i - 1) /\ j <= Len(before)
        BY <1>1, <1>7, <2>1
    <3> QED BY <1>2, <2>0, <2>1, <3>1
  <2>2. CASE ~(j < i)
    <3>1. j - (i - 1) \in 1..(Len(s) - i) /\ i + (j - (i - 1)) = j + 1
        BY <1>1, <1>7, <2>2
    <3>2. q[j] = after[j - (i - 1)]
      <4>1. ~(j <= Len(before))
          BY <1>1, <1>7, <2>2
      <4> QED BY <2>0, <4>1
    <3> QED BY <1>3, <2>2, <3>1, <3>2
  <2> QED BY <2>1, <2>2
<1> QED BY <1>5, <1>6, <1>7 DEF q

LEMMA MaxOfTwo == ASSUME NEW a \in Int, NEW b \in Int PROVE Max({a, b}) = IF a >= b THEN a ELSE b
BY DEF Max

LEMMA Newest ==
    ASSUME NEW S, NEW s \in Seq(S), NEW size \in Nat \ {0}
    PROVE  LET t == LastOf(s, size)
               d == IF Len(s) <= size THEN 0 ELSE Len(s) - size
           IN  /\ t \in Seq(S) /\ Len(t) <= size /\ Len(t) = Len(s) - d
               /\ \A j \in 1..Len(t) : t[j] = s[j + d]
<1> DEFINE m == Max({1, Len(s) - size + 1})
           d == IF Len(s) <= size THEN 0 ELSE Len(s) - size
<1>1. Len(s) \in Nat /\ 1 \in Int /\ Len(s) - size + 1 \in Int
    OBVIOUS
<1>2. m = d + 1
    BY <1>1, MaxOfTwo
<1>3. LastOf(s, size) = SubSeq(s, d + 1, Len(s))
    BY <1>2 DEF LastOf
<1>4. d \in 0..Len(s) /\ Len(s) - d <= size
    BY <1>1
<1> HIDE DEF m, d
<1>5. PICK t : t = SubSeq(s, d + 1, Len(s))
    OBVIOUS
<1>6. t \in Seq(S) /\ Len(t) = Len(s) - d /\ \A j \in 1..(Len(s) - d) : t[j] = s[j + d]
    BY <1>1, <1>4, <1>5
<1>7. /\ t \in Seq(S) /\ Len(t) <= size /\ Len(t) = Len(s) - d
      /\ \A j \in 1..Len(t) : t[j] = s[j + d]
    BY <1>4, <1>6
<1> QED BY <1>3, <1>5, <1>7 DEF d

(* The caches after an entry went, and after one came.                        *)
LEMMA OneGone ==
    ASSUME NEW s \in Seq(Entries), Distinct(s), NEW i \in DOMAIN s
    PROVE  LET t == RemoveAt(s, i)
           IN  /\ t \in Seq(Entries) /\ Len(t) <= Len(s) - 1 /\ Distinct(t)
               /\ \A e \in Range(t) : e \in Range(s) /\ e.key # s[i].key
<1> DEFINE t == RemoveAt(s, i)
<1>1. Len(s) \in Nat /\ i \in 1..Len(s) /\ DOMAIN s = 1..Len(s)
    OBVIOUS
<1>2. /\ t \in Seq(Entries) /\ Len(t) = Len(s) - 1
      /\ \A j \in 1..(Len(s) - 1) : t[j] = s[IF j < i THEN j ELSE j + 1]
    BY RemovedAt
<1> HIDE DEF t
<1>3. DOMAIN t = 1..(Len(s) - 1)
    BY <1>2
<1>4. ASSUME NEW j \in DOMAIN t
      PROVE  LET k == IF j < i THEN j ELSE j + 1
             IN  k \in DOMAIN s /\ k # i /\ t[j] = s[k]
    BY <1>1, <1>2, <1>3, <1>4
<1>5. Distinct(t)
  <2>1. SUFFICES ASSUME NEW j \in DOMAIN t, NEW l \in DOMAIN t, t[j].key = t[l].key PROVE j = l
      BY DEF Distinct
  <2>2. (IF j < i THEN j ELSE j + 1) = (IF l < i THEN l ELSE l + 1)
      BY <1>4, <2>1 DEF Distinct
  <2> QED BY <1>1, <1>3, <2>1, <2>2
<1>6. \A e \in Range(t) : e \in Range(s) /\ e.key # s[i].key
  <2>1. SUFFICES ASSUME NEW j \in DOMAIN t PROVE t[j] \in Range(s) /\ t[j].key # s[i].key
      BY DEF Range
  <2>2. PICK k \in DOMAIN s : k # i /\ t[j] = s[k]
      BY <1>4
  <2> QED BY <2>2, <1>1 DEF Range, Distinct
<1> QED BY <1>1, <1>2, <1>5, <1>6 DEF t

LEMMA KeyGone ==
    ASSUME NEW s \in Seq(Entries), Distinct(s), NEW key
    PROVE  LET t == Without(s, key)
           IN  /\ t \in Seq(Entries) /\ Len(t) <= Len(s) /\ Distinct(t)
               /\ \A e \in Range(t) : e \in Range(s) /\ e.key # key
<1>1. CASE \E i \in DOMAIN s : s[i].key = key
  <2>1. PICK i \in DOMAIN s : s[i].key = key /\ Without(s, key) = RemoveAt(s, i)
      BY <1>1, Zenon DEF Without
  <2>2. Len(s) \in Nat
      OBVIOUS
  <2>3. /\ RemoveAt(s, i) \in Seq(Entries) /\ Len(RemoveAt(s, i)) <= Len(s) - 1
        /\ Distinct(RemoveAt(s, i))
        /\ \A e \in Range(RemoveAt(s, i)) : e \in Range(s) /\ e.key # s[i].key
      BY OneGone
  <2>4. Len(RemoveAt(s, i)) <= Len(s)
      BY <2>2, <2>3
  <2> QED BY <2>1, <2>3, <2>4
<1>2. CASE ~\E i \in DOMAIN s : s[i].key = key
  <2>1. Without(s, key) = s
      BY <1>2 DEF Without
  <2> QED BY <1>2, <2>1 DEF Range
<1> QED BY <1>1, <1>2

LEMMA OneMore ==
    ASSUME NEW s \in Seq(Entries), Distinct(s), NEW x \in Entries,
           \A e \in Range(s) : e.key # x.key
    PROVE  LET t == Append(s, x)
           IN  /\ t \in Seq(Entries) /\ Len(t) = Len(s) + 1 /\ Distinct(t)
               /\ \A e \in Range(t) : e \in Range(s) \/ e = x
<1> DEFINE t == Append(s, x)
<1>1. Len(s) \in Nat /\ DOMAIN s = 1..Len(s)
    OBVIOUS
<1>2. /\ t \in Seq(Entries) /\ Len(t) = Len(s) + 1 /\ DOMAIN t = 1..(Len(s) + 1)
      /\ \A j \in 1..Len(s) : t[j] = s[j]
      /\ t[Len(s) + 1] = x
    BY <1>1
<1> HIDE DEF t
<1>3. \A j \in DOMAIN s : s[j].key # x.key
    BY DEF Range
<1>4. Distinct(t)
  <2>1. SUFFICES ASSUME NEW j \in DOMAIN t, NEW l \in DOMAIN t, t[j].key = t[l].key PROVE j = l
      BY DEF Distinct
  <2>2. CASE j \in DOMAIN s /\ l \in DOMAIN s
      BY <1>1, <1>2, <2>1, <2>2 DEF Distinct
  <2>3. CASE j = Len(s) + 1 \/ l = Len(s) + 1
      BY <1>1, <1>2, <1>3, <2>1, <2>3
  <2> QED BY <1>1, <1>2, <2>2, <2>3
<1>5. \A e \in Range(t) : e \in Range(s) \/ e = x
  <2>1. SUFFICES ASSUME NEW j \in DOMAIN t PROVE t[j] \in Range(s) \/ t[j] = x
      BY DEF Range
  <2> QED BY <1>1, <1>2 DEF Range
<1> QED BY <1>2, <1>4, <1>5 DEF t

LEMMA NewestEntries ==
    ASSUME NEW s \in Seq(Entries), Distinct(s)
    PROVE  LET t == LastOf(s, CacheSize)
           IN  /\ t \in Seq(Entries) /\ Len(t) <= CacheSize /\ Distinct(t)
               /\ Range(t) \subseteq Range(s)
<1> DEFINE t == LastOf(s, CacheSize)
<1>1. PICK d : d = IF Len(s) <= CacheSize THEN 0 ELSE Len(s) - CacheSize
    OBVIOUS
<1>2. Len(s) \in Nat /\ DOMAIN s = 1..Len(s) /\ d \in Nat /\ CacheSize \in Nat \ {0}
    BY <1>1, HistoryAssumption
<1>3. /\ t \in Seq(Entries) /\ Len(t) <= CacheSize /\ Len(t) = Len(s) - d
      /\ \A j \in 1..Len(t) : t[j] = s[j + d]
    BY <1>1, <1>2, Newest
<1> HIDE DEF t
<1>4. \A j \in DOMAIN t : j + d \in DOMAIN s /\ t[j] = s[j + d] /\ j \in Int
    BY <1>2, <1>3
<1>5. Distinct(t)
  <2>1. SUFFICES ASSUME NEW j \in DOMAIN t, NEW l \in DOMAIN t, t[j].key = t[l].key PROVE j = l
      BY DEF Distinct
  <2>2. j + d = l + d
      BY <1>4, <2>1 DEF Distinct
  <2> QED BY <1>2, <1>4, <2>2
<1>6. Range(t) \subseteq Range(s)
    BY <1>4 DEF Range
<1> QED BY <1>3, <1>5, <1>6 DEF t

-------------------------------------------------------------------------------
(* A request that goes on, and readers that do not.                           *)
LEMMA TookTyped ==
    ASSUME NEW o \in Asked, o.todo # <<>>, NEW rows \in SUBSET Attempts
    PROVE  /\ Took(o, rows) \in Asked /\ Took(o, rows).number = o.number
           /\ Took(o, rows).attempt = o.attempt /\ Took(o, rows).live = o.live
           /\ Took(o, rows).todo = Tail(o.todo)
           /\ Took(o, rows).rows = IF o.attempt # NoAttempt /\ Head(o.todo) = "this" THEN rows
                                   ELSE o.rows
<1>1. o.todo \in Seq(Years) /\ Tail(o.todo) \in Seq(Years)
    BY DEF Asked
<1>2. PICK seen : seen = IF o.attempt # NoAttempt /\ Head(o.todo) = "this" THEN rows ELSE o.rows
    OBVIOUS
<1>3. PICK rest : rest = Tail(o.todo)
    OBVIOUS
<1>4. Took(o, rows) = [o EXCEPT !.todo = rest, !.rows = seen]
    BY <1>2, <1>3 DEF Took
<1>5. seen \in SUBSET Attempts /\ rest \in Seq(Years)
    BY <1>1, <1>2, <1>3 DEF Asked
<1> QED BY <1>2, <1>3, <1>4, <1>5 DEF Asked

LEMMA HeadOrRest ==
    ASSUME NEW s \in Seq(Years), s # <<>>
    PROVE  /\ Head(s) \in Years
           /\ Range(s) = {Head(s)} \cup Range(Tail(s))
<1>1. Len(s) \in Nat \ {0} /\ DOMAIN s = 1..Len(s) /\ Head(s) = s[1]
    OBVIOUS
<1>2. Tail(s) \in Seq(Years) /\ Len(Tail(s)) = Len(s) - 1
      /\ \A i \in 1..(Len(s) - 1) : Tail(s)[i] = s[i + 1]
    BY <1>1
<1>3. DOMAIN Tail(s) = 1..(Len(s) - 1)
    BY <1>2
<1>4. ASSUME NEW i \in DOMAIN s PROVE s[i] = Head(s) \/ s[i] \in Range(Tail(s))
  <2>1. CASE i = 1
      BY <1>1, <2>1
  <2>2. CASE i # 1
    <3>1. i - 1 \in 1..(Len(s) - 1) /\ (i - 1) + 1 = i
        BY <1>1, <2>2
    <3>2. Tail(s)[i - 1] = s[i]
        BY <1>2, <3>1
    <3> QED BY <1>3, <3>1, <3>2 DEF Range
  <2> QED BY <2>1, <2>2
<1>5. ASSUME NEW i \in DOMAIN Tail(s) PROVE Tail(s)[i] \in Range(s)
  <2>1. i + 1 \in DOMAIN s /\ Tail(s)[i] = s[i + 1]
      BY <1>1, <1>2, <1>3
  <2> QED BY <2>1 DEF Range
<1>6. Head(s) \in Range(s) /\ Head(s) \in Years
    BY <1>1 DEF Range
<1> QED BY <1>4, <1>5, <1>6 DEF Range

(* A result with every record of this year that was answered makes a reader   *)
(* who has seen this year see its accepted attempt.                           *)
LEMMA TookSees ==
    ASSUME NEW o \in Asked, o.todo # <<>>, NEW rows \in SUBSET Attempts, NEW known,
           HasSeen(o, known), o.live /\ Head(o.todo) = "this" => known[o.number] \subseteq rows
    PROVE  HasSeen(Took(o, rows), known)
<1>1. o.todo \in Seq(Years)
    BY DEF Asked
<1>2. Range(o.todo) = {Head(o.todo)} \cup Range(Tail(o.todo))
    BY <1>1, HeadOrRest
<1>3. PICK rec : rec = Took(o, rows)
    OBVIOUS
<1>4. /\ rec.number = o.number /\ rec.attempt = o.attempt /\ rec.live = o.live
      /\ rec.todo = Tail(o.todo)
      /\ rec.rows = IF o.attempt # NoAttempt /\ Head(o.todo) = "this" THEN rows ELSE o.rows
    BY <1>3, TookTyped
<1>5. Settled(rec.number, rec.attempt, known)
    BY <1>4 DEF HasSeen
<1>6. ASSUME Accepted(rec.attempt), rec.live, "this" \notin Range(rec.todo)
      PROVE  rec.attempt.id \in rec.rows
  <2>1. CASE Head(o.todo) = "this"
      BY <1>4, <1>5, <1>6, <2>1 DEF Accepted, Settled
  <2>2. CASE Head(o.todo) # "this"
      BY <1>2, <1>4, <1>6, <2>2 DEF HasSeen
  <2> QED BY <2>1, <2>2
<1> QED BY <1>3, <1>5, <1>6 DEF HasSeen

LEMMA IsAsked ==
    ASSUME NEW o \in Asked \cup {Idle, Shown}
    PROVE  o \in Asked <=> o \notin {Idle, Shown}
BY DEF Asked, Idle, Shown

(* One reader moves, and the others stay.                                     *)
LEMMA ReaderMoves ==
    ASSUME Shape, Asking, answered' = answered, NEW r \in Readers,
           NEW rec \in Asked \cup {Idle, Shown}, op' = [op EXCEPT ![r] = rec],
           rec \notin {Idle, Shown} => HasSeen(rec, answered)
    PROVE  /\ op' \in [Readers -> Asked \cup {Idle, Shown}]
           /\ op'[r] = rec /\ \A q \in Readers \ {r} : op'[q] = op[q]
           /\ \A q \in Readers : op'[q] \notin {Idle, Shown} => HasSeen(op'[q], answered')
BY DEF Shape, Asking

-------------------------------------------------------------------------------
(* Steps of readers that do not wait for the cache.                           *)
LEMMA ReaderStep ==
    ASSUME IInv, NEW r \in Readers, ~Waiting(r), NEW rec \in Asked \cup {Idle, Shown},
           op' = [op EXCEPT ![r] = rec], rec \notin {Idle, Shown} => HasSeen(rec, answered),
           UNCHANGED <<submitVars, cacheVars, allowed>>
    PROVE  IInv'
<1>1. UNCHANGED <<book, late, post, journal, answered, sent, cache, recent, blocked, generation,
                  read, allowed>>
    BY DEF submitVars, cacheVars
<1>2. /\ op' \in [Readers -> Asked \cup {Idle, Shown}]
      /\ op'[r] = rec /\ \A q \in Readers \ {r} : op'[q] = op[q]
      /\ \A q \in Readers : op'[q] \notin {Idle, Shown} => HasSeen(op'[q], answered)
    BY <1>1, ReaderMoves DEF IInv
<1>3. Shape'
    BY <1>1, <1>2 DEF IInv, Shape, Submitted, Cached, Distinct
<1>4. Counted' /\ Recorded' /\ Journalled' /\ Fresh'
    BY <1>1 DEF IInv, Counted, Recorded, Journalled, Fresh
<1>5. Asking'
  <2>1. read # NoRead => read.by \in Readers /\ read.by # r
      BY DEF IInv, Shape, Cached, Reads, Asking
  <2> QED BY <1>1, <1>2, <2>1 DEF IInv, Asking, Waiting, Key
<1> QED BY <1>3, <1>4, <1>5 DEF IInv

LEMMA AskedRecord ==
    ASSUME NEW kind \in {"card", "bot"}, NEW n \in Accounts, NEW todo \in Seq(Years),
           NEW force \in BOOLEAN, NEW maxAge \in Nat, NEW attempt \in Results \cup {NoAttempt},
           "this" \in Range(todo) \/ ~Accepted(attempt), NEW known, Settled(n, attempt, known)
    PROVE  LET rec == [kind |-> kind, number |-> n, todo |-> todo, force |-> force,
                       maxAge |-> maxAge, attempt |-> attempt, live |-> TRUE,
                       looked |-> FALSE, rows |-> {}]
           IN  rec \in Asked /\ HasSeen(rec, known)
BY DEF Asked, HasSeen

LEMMA InvBegin ==
    ASSUME IInv, NEW r \in Readers, NEW n \in Accounts,
           AskHistory(r, n) \/ AskReadback(r, n) \/ AskBot(r, n)
    PROVE  IInv'
<1>1. journal[n] \in Results \cup {NoAttempt} /\ Settled(n, journal[n], answered)
    BY DEF IInv, Shape, Submitted, Journalled
<1>2. NoAttempt \in Results \cup {NoAttempt} /\ Settled(n, NoAttempt, answered) /\ ~Accepted(NoAttempt)
    BY DEF Settled, Accepted
<1>3. /\ <<"this">> \in Seq(Years) /\ <<"this", "previous">> \in Seq(Years)
      /\ "this" \in Range(<<"this">>)
  <2>1. "this" \in Years /\ "previous" \in Years
      BY DEF Years
  <2>2. <<"this">> \in Seq(Years) /\ <<"this", "previous">> \in Seq(Years)
      BY <2>1
  <2>3. 1 \in DOMAIN <<"this">> /\ <<"this">>[1] = "this"
      OBVIOUS
  <2> QED BY <2>2, <2>3 DEF Range
<1>4. PICK kind \in {"card", "bot"}, todo \in {<<"this">>, <<"this", "previous">>},
           force \in BOOLEAN, maxAge \in Nat, attempt \in {NoAttempt, journal[n]} :
          /\ todo = <<"this">> \/ attempt = NoAttempt
          /\ Begin(r, kind, n, todo, force, maxAge, attempt)
  <2>1. CASE AskHistory(r, n)
      BY <2>1 DEF AskHistory
  <2>2. CASE AskReadback(r, n)
      BY <2>2 DEF AskReadback
  <2>3. CASE AskBot(r, n)
      BY <2>3 DEF AskBot
  <2> QED BY <2>1, <2>2, <2>3
<1>5. PICK rec : rec = [kind |-> kind, number |-> n, todo |-> todo, force |-> force,
                        maxAge |-> maxAge, attempt |-> attempt, live |-> TRUE,
                        looked |-> FALSE, rows |-> {}]
    OBVIOUS
<1>6. rec \in Asked /\ HasSeen(rec, answered)
  <2>1. /\ todo \in Seq(Years) /\ attempt \in Results \cup {NoAttempt}
        /\ Settled(n, attempt, answered) /\ ("this" \in Range(todo) \/ ~Accepted(attempt))
      BY <1>1, <1>2, <1>3, <1>4
  <2> QED BY <1>5, <2>1, AskedRecord
<1>7. ~Waiting(r) /\ op' = [op EXCEPT ![r] = rec] /\ UNCHANGED <<submitVars, cacheVars, allowed>>
    BY <1>4, <1>5 DEF Begin, Waiting
<1> QED BY <1>6, <1>7, ReaderStep

LEMMA InvBotLooksBack == ASSUME IInv, NEW r \in Readers, BotLooksBack(r) PROVE IInv'
<1>1. /\ op[r] \notin {Idle, Shown} /\ op[r].todo = <<>> /\ op[r].rows = {} /\ op[r].live
      /\ op[r] \in Asked /\ HasSeen(op[r], answered)
    BY IsAsked DEF BotLooksBack, Finished, IInv, Shape, Asking
<1>2. PICK todo : todo = IF op[r].attempt = NoAttempt THEN <<"previous">>
                         ELSE <<"previous", "this">>
    OBVIOUS
<1>3. todo \in Seq(Years)
  <2>1. "this" \in Years /\ "previous" \in Years
      BY DEF Years
  <2> QED BY <1>2, <2>1
<1>4. PICK rec : rec = [op[r] EXCEPT !.looked = TRUE, !.todo = todo]
    OBVIOUS
<1>5. /\ rec \in Asked /\ rec.attempt = op[r].attempt /\ rec.number = op[r].number
      /\ rec.todo = todo /\ rec.rows = op[r].rows
    BY <1>1, <1>3, <1>4 DEF Asked
<1>6. HasSeen(rec, answered)
  <2>1. op[r].attempt # NoAttempt => "this" \in Range(todo)
    <3>1. ASSUME op[r].attempt # NoAttempt PROVE 2 \in DOMAIN todo /\ todo[2] = "this"
        BY <1>2, <3>1
    <3> QED BY <3>1 DEF Range
  <2> QED BY <1>1, <1>5, <2>1 DEF HasSeen, Accepted
<1>7. op' = [op EXCEPT ![r] = rec] /\ UNCHANGED <<submitVars, cacheVars, allowed>>
  <2>1. op' = [op EXCEPT ![r].looked = TRUE, ![r].todo = todo]
      BY <1>2 DEF BotLooksBack
  <2> QED BY <1>4, <2>1 DEF BotLooksBack, IInv, Shape
<1>8. ~Waiting(r)
    BY <1>1 DEF Waiting
<1> QED BY <1>5, <1>6, <1>7, <1>8, ReaderStep

LEMMA InvDeliver == ASSUME IInv, NEW r \in Readers, Deliver(r) PROVE IInv'
<1>1. PICK rec \in {Idle, Shown} : op' = [op EXCEPT ![r] = rec]
    BY DEF Deliver
<1>2. ~Waiting(r) /\ UNCHANGED <<submitVars, cacheVars, allowed>>
    BY DEF Deliver, Finished, Waiting
<1> QED BY <1>1, <1>2, ReaderStep

LEMMA InvOutlived == ASSUME IInv, NEW r \in Readers, Outlived(r) PROVE IInv'
<1>1. /\ op[r] \notin {Idle, Shown} /\ op[r].todo # <<>> /\ ~op[r].live
      /\ op[r] \in Asked /\ HasSeen(op[r], answered)
    BY IsAsked DEF Outlived, IInv, Shape, Asking
<1>2. PICK rows \in SUBSET book[op[r].number] :
          op' \in {[op EXCEPT ![r] = Idle], [op EXCEPT ![r] = Took(op[r], rows)]}
    BY DEF Outlived
<1>3. rows \in SUBSET Attempts
    BY <1>1 DEF IInv, Shape, Submitted, Asked
<1>4. Took(op[r], rows) \in Asked /\ HasSeen(Took(op[r], rows), answered)
    BY <1>1, <1>3, TookTyped, TookSees
<1>5. ~Waiting(r) /\ UNCHANGED <<submitVars, cacheVars, allowed>>
    BY <1>1 DEF Outlived, Waiting
<1>6. PICK rec \in {Idle, Took(op[r], rows)} : op' = [op EXCEPT ![r] = rec]
    BY <1>2
<1>7. rec \in Asked \cup {Idle, Shown} /\ (rec \notin {Idle, Shown} => HasSeen(rec, answered))
    BY <1>4, <1>6
<1> QED BY <1>5, <1>6, <1>7, ReaderStep

-------------------------------------------------------------------------------
(* Steps of the cache.                                                        *)
LEMMA NewestKeys ==
    ASSUME recent \in Seq(Keys), NEW k \in Keys
    PROVE  /\ LastOf(Append(recent, k), LimitSize) \in Seq(Keys)
           /\ Len(LastOf(Append(recent, k), LimitSize)) <= LimitSize
<1>1. Append(recent, k) \in Seq(Keys) /\ LimitSize \in Nat \ {0}
    BY HistoryAssumption
<1>2. PICK s : s = Append(recent, k)
    OBVIOUS
<1> QED BY <1>1, <1>2, Newest

LEMMA WaitingReader ==
    ASSUME IInv, NEW r \in Readers, Waiting(r)
    PROVE  /\ op[r] \in Asked /\ op[r].todo # <<>> /\ op[r].live /\ HasSeen(op[r], answered)
           /\ op[r].number \in Accounts /\ Head(op[r].todo) \in Years
           /\ Key(op[r]) \in Keys /\ Key(op[r])[1] = op[r].number
           /\ Key(op[r])[2] = Head(op[r].todo)
<1>1. op[r] \in Asked /\ op[r].todo # <<>> /\ op[r].live /\ HasSeen(op[r], answered)
    BY IsAsked DEF Waiting, IInv, Shape, Asking
<1>2. op[r].number \in Accounts /\ op[r].todo \in Seq(Years)
    BY <1>1 DEF Asked
<1>3. Head(op[r].todo) \in Years
    BY <1>1, <1>2, HeadOrRest
<1> QED BY <1>1, <1>2, <1>3 DEF Key, Keys

LEMMA InvGet == ASSUME IInv, NEW r \in Readers, Get(r) PROVE IInv'
<1> DEFINE k == Key(op[r])
           hits == {i \in DOMAIN cache : cache[i].key = k /\ Usable(cache[i], op[r])}
<1>1. /\ Waiting(r) /\ read = NoRead
      /\ UNCHANGED <<book, late, post, journal, answered, sent, blocked, generation, allowed>>
    BY DEF Get, submitVars
<1>2. /\ op[r] \in Asked /\ op[r].todo # <<>> /\ op[r].live /\ HasSeen(op[r], answered)
      /\ op[r].number \in Accounts /\ k \in Keys
      /\ k[1] = op[r].number /\ k[2] = Head(op[r].todo)
    BY <1>1, WaitingReader
<1>3. Submitted' /\ allowed' \in BOOLEAN /\ Recorded' /\ Journalled'
    BY <1>1 DEF IInv, Shape, Submitted, Recorded, Journalled
<1>4. ASSUME NEW i \in hits, cache' = Append(RemoveAt(cache, i), cache[i]),
             op' = [op EXCEPT ![r] = Took(op[r], cache[i].rows)], UNCHANGED <<recent, read>>
      PROVE  IInv'
  <2>1. cache \in Seq(Entries) /\ Distinct(cache) /\ Len(cache) <= CacheSize /\ i \in DOMAIN cache
      BY <1>4 DEF IInv, Shape, Cached
  <2>2. PICK t : t = RemoveAt(cache, i)
      OBVIOUS
  <2>3. /\ t \in Seq(Entries) /\ Len(t) <= Len(cache) - 1 /\ Distinct(t)
        /\ \A e \in Range(t) : e \in Range(cache) /\ e.key # cache[i].key
      BY <2>1, <2>2, OneGone
  <2>4. PICK x \in Entries : x = cache[i] /\ x \in Range(cache)
      BY <2>1 DEF Range
  <2>5. /\ Append(t, x) \in Seq(Entries) /\ Len(Append(t, x)) = Len(t) + 1
        /\ Distinct(Append(t, x)) /\ \A e \in Range(Append(t, x)) : e \in Range(t) \/ e = x
      BY <2>3, <2>4, OneMore
  <2>6. cache' = Append(t, x)
      BY <1>4, <2>2, <2>4
  <2>7. Cached'
    <3>1. Len(Append(t, x)) <= CacheSize
      <4>1. Len(t) \in Nat /\ Len(cache) \in Nat /\ CacheSize \in Nat
          BY <2>1, <2>3, HistoryAssumption
      <4> QED BY <2>1, <2>3, <2>5, <4>1
    <3>2. Distinct(cache)' <=> Distinct(cache')
        BY DEF Distinct
    <3> QED BY <1>1, <1>4, <2>5, <2>6, <3>1, <3>2 DEF IInv, Shape, Cached
  <2>8. Fresh'
    <3>1. \A e \in Range(cache') : e \in Range(cache)
        BY <2>3, <2>4, <2>5, <2>6
    <3>2. read' = NoRead
        BY <1>1, <1>4
    <3> QED BY <1>1, <3>1, <3>2 DEF IInv, Fresh
  <2>9. x.rows \in SUBSET Attempts /\ x.key = k
        /\ (k[2] = "this" => answered[k[1]] \subseteq x.rows)
    <3>1. x.rows \in SUBSET Attempts /\ x.key = k
        BY <1>4, <2>4 DEF Entries
    <3>2. x.key[2] = "this" => answered[x.key[1]] \subseteq x.rows
        BY <2>4 DEF IInv, Fresh
    <3> QED BY <3>1, <3>2
  <2>10. PICK rec : rec = Took(op[r], x.rows)
      OBVIOUS
  <2>11. rec \in Asked /\ HasSeen(rec, answered) /\ op' = [op EXCEPT ![r] = rec]
      BY <1>2, <1>4, <2>4, <2>9, <2>10, TookTyped, TookSees
  <2>12. /\ op' \in [Readers -> Asked \cup {Idle, Shown}]
         /\ \A q \in Readers : op'[q] \notin {Idle, Shown} => HasSeen(op'[q], answered)
      BY <1>1, <2>11, ReaderMoves DEF IInv
  <2>13. Shape' /\ Asking' /\ Counted'
      BY <1>1, <1>3, <1>4, <2>7, <2>12 DEF Shape, Asking, IInv, Counted
  <2> QED BY <1>3, <2>8, <2>13 DEF IInv
<1>5. ASSUME op' = [op EXCEPT ![r] = Idle], UNCHANGED <<cache, recent, read>>
      PROVE  IInv'
  <2>1. /\ op' \in [Readers -> Asked \cup {Idle, Shown}]
        /\ \A q \in Readers : op'[q] \notin {Idle, Shown} => HasSeen(op'[q], answered)
      BY <1>1, <1>5, ReaderMoves DEF IInv
  <2>2. Cached' /\ Fresh' /\ Counted'
      BY <1>1, <1>5 DEF IInv, Shape, Cached, Distinct, Fresh, Counted
  <2>3. Shape' /\ Asking'
      BY <1>1, <1>3, <1>5, <2>1, <2>2 DEF Shape, Asking
  <2> QED BY <1>3, <2>2, <2>3 DEF IInv
<1>6. ASSUME recent' = LastOf(Append(recent, k), LimitSize),
             read' = [by |-> r, key |-> k, generation |-> generation, rows |-> {}, pages |-> 0],
             UNCHANGED <<cache, op>>
      PROVE  IInv'
  <2>1. /\ read' \in Reads /\ read'.by = r /\ read'.key = k /\ read'.pages = 0
        /\ read'.generation = generation
      BY <1>2, <1>6 DEF IInv, Counted, Reads
  <2>2. recent' \in Seq(Keys) /\ Len(recent') <= LimitSize
      BY <1>2, <1>6, NewestKeys DEF IInv, Shape, Cached
  <2>3. Shape'
      BY <1>1, <1>3, <1>6, <2>1, <2>2 DEF IInv, Shape, Cached, Distinct
  <2>4. Fresh'
      BY <1>1, <1>6, <2>1 DEF IInv, Fresh
  <2>5. Counted'
      BY <1>1, <2>1 DEF IInv, Counted
  <2>6. Asking'
    <3>1. Waiting(r)' /\ Key(op[r])' = k
        BY <1>1, <1>6 DEF Waiting, Key
    <3> QED BY <1>1, <1>6, <2>1, <3>1 DEF IInv, Asking, Waiting, Key
  <2> QED BY <1>3, <2>3, <2>4, <2>5, <2>6 DEF IInv
<1> QED BY <1>4, <1>5, <1>6 DEF Get

(* The reader whose read holds the lock.                                      *)
LEMMA ReadingReader ==
    ASSUME IInv, read # NoRead
    PROVE  /\ read \in Reads /\ read.by \in Readers /\ read.key \in Keys
           /\ read.rows \in SUBSET Attempts /\ Waiting(read.by)
           /\ Key(op[read.by]) = read.key
BY DEF IInv, Shape, Cached, Reads, Asking

LEMMA InvPage == ASSUME IInv, Page PROVE IInv'
<1>1. /\ read # NoRead /\ read.pages = 0
      /\ UNCHANGED <<book, late, post, journal, answered, sent, cache, recent, blocked, generation,
                     op, allowed>>
    BY DEF Page, submitVars
<1>2. read \in Reads /\ read.key \in Keys /\ Waiting(read.by) /\ Key(op[read.by]) = read.key
    BY <1>1, ReadingReader
<1>3. PICK rows : rows = IF read.key[2] = "this" THEN book[read.key[1]] ELSE read.rows
    OBVIOUS
<1>4. read' = [read EXCEPT !.pages = 1, !.rows = rows]
  <2>1. read.pages + 1 = 1
      BY <1>1
  <2> QED BY <1>2, <1>3, <2>1 DEF Page
<1>5. read.key[1] \in Accounts /\ rows \in SUBSET Attempts
    BY <1>2, <1>3 DEF IInv, Shape, Submitted, Keys, Reads
<1>6. /\ read' \in Reads /\ read'.by = read.by /\ read'.key = read.key /\ read'.rows = rows
      /\ read'.generation = read.generation
  <2>1. PICK rec : rec = [read EXCEPT !.pages = 1, !.rows = rows]
      OBVIOUS
  <2>2. 1 \in 0..1 /\ rows \in SUBSET Attempts /\ read \in Reads
      BY <1>2, <1>5
  <2>3. /\ rec \in Reads /\ rec.by = read.by /\ rec.key = read.key /\ rec.rows = rows
        /\ rec.generation = read.generation
      BY <2>1, <2>2 DEF Reads
  <2> QED BY <1>4, <2>1, <2>3
<1>7. read' # NoRead
    BY <1>6, HistoryAssumption
<1>8. Shape'
    BY <1>1, <1>6 DEF IInv, Shape, Submitted, Cached, Distinct
<1>9. Counted' /\ Recorded' /\ Journalled'
    BY <1>1, <1>6 DEF IInv, Counted, Recorded, Journalled
<1>10. Fresh'
  <2>1. read.key[2] = "this" => answered[read.key[1]] \subseteq rows
      BY <1>3, <1>5 DEF IInv, Recorded
  <2> QED BY <1>1, <1>6, <2>1 DEF IInv, Fresh
<1>11. Asking'
    BY <1>1, <1>2, <1>6 DEF IInv, Asking, Waiting, Key
<1> QED BY <1>8, <1>9, <1>10, <1>11 DEF IInv

(* The read ends without a result.                                            *)
LEMMA InvNoResult ==
    ASSUME IInv, read # NoRead, op' = [op EXCEPT ![read.by] = Idle], read' = NoRead,
           UNCHANGED <<submitVars, cache, recent, generation, allowed>>, blocked' \in BOOLEAN
    PROVE  IInv'
<1>1. UNCHANGED <<book, late, post, journal, answered, sent>>
    BY DEF submitVars
<1>2. /\ op' \in [Readers -> Asked \cup {Idle, Shown}]
      /\ \A q \in Readers : op'[q] \notin {Idle, Shown} => HasSeen(op'[q], answered)
  <2>1. read.by \in Readers
      BY ReadingReader
  <2> QED BY <1>1, <2>1, ReaderMoves DEF IInv
<1>3. Shape'
    BY <1>1, <1>2 DEF IInv, Shape, Submitted, Cached, Distinct
<1>4. Counted' /\ Recorded' /\ Journalled' /\ Fresh'
    BY <1>1 DEF IInv, Counted, Recorded, Journalled, Fresh
<1>5. Asking'
    BY <1>1, <1>2 DEF Asking
<1> QED BY <1>3, <1>4, <1>5 DEF IInv

LEMMA InvBroken == ASSUME IInv, NEW limited \in BOOLEAN, Broken(limited) PROVE IInv'
<1>1. blocked' \in BOOLEAN
    BY DEF Broken, IInv, Shape, Cached
<1> QED BY <1>1, InvNoResult DEF Broken

LEMMA InvComplete == ASSUME IInv, NEW partial \in BOOLEAN, Complete(partial) PROVE IInv'
<1>1. /\ read # NoRead /\ read.pages = 1 /\ read' = NoRead
      /\ UNCHANGED <<submitVars, recent, blocked, generation, allowed>>
      /\ UNCHANGED <<book, late, post, journal, answered, sent>>
    BY DEF Complete, submitVars
<1>2. CASE read.generation # generation
  <2>1. op' = [op EXCEPT ![read.by] = Idle] /\ UNCHANGED cache /\ blocked' \in BOOLEAN
      BY <1>1, <1>2 DEF Complete, IInv, Shape, Cached
  <2> QED BY <1>1, <2>1, InvNoResult
<1>3. CASE read.generation = generation
  <2>1. PICK r : r = read.by
      OBVIOUS
  <2>2. /\ r \in Readers /\ read.key \in Keys /\ read.rows \in SUBSET Attempts /\ Waiting(r)
        /\ Key(op[r]) = read.key
      BY <1>1, <2>1, ReadingReader
  <2>3. /\ op[r] \in Asked /\ op[r].todo # <<>> /\ HasSeen(op[r], answered)
        /\ read.key[1] = op[r].number /\ read.key[2] = Head(op[r].todo)
      BY <2>2, WaitingReader
  <2>4. read.key[2] = "this" => answered[read.key[1]] \subseteq read.rows
      BY <1>1, <1>3 DEF IInv, Fresh
  <2>5. PICK rec : rec = Took(op[r], read.rows)
      OBVIOUS
  <2>6. rec \in Asked /\ HasSeen(rec, answered) /\ op' = [op EXCEPT ![r] = rec]
    <3>1. rec \in Asked
        BY <2>2, <2>3, <2>5, TookTyped
    <3>2. HasSeen(rec, answered)
        BY <2>2, <2>3, <2>4, <2>5, TookSees
    <3> QED BY <1>3, <2>1, <2>5, <3>1, <3>2 DEF Complete
  <2>7. /\ op' \in [Readers -> Asked \cup {Idle, Shown}]
        /\ \A q \in Readers : op'[q] \notin {Idle, Shown} => HasSeen(op'[q], answered)
      BY <1>1, <2>2, <2>6, ReaderMoves DEF IInv
  <2>8. PICK x : x = [key |-> read.key, rows |-> read.rows, partial |-> partial, age |-> 0]
      OBVIOUS
  <2>9. x \in Entries /\ x.key = read.key /\ x.rows = read.rows
      BY <2>2, <2>8 DEF Entries, Ages
  <2>10. PICK s : s = Without(cache, read.key)
      OBVIOUS
  <2>11. /\ s \in Seq(Entries) /\ Distinct(s)
         /\ \A e \in Range(s) : e \in Range(cache) /\ e.key # read.key
      BY <2>10, KeyGone DEF IInv, Shape, Cached
  <2>12. PICK t : t = Append(s, x)
      OBVIOUS
  <2>13. /\ t \in Seq(Entries) /\ Distinct(t)
         /\ \A e \in Range(t) : e \in Range(s) \/ e = x
      BY <2>9, <2>11, <2>12, OneMore
  <2>14. cache' = LastOf(t, CacheSize)
      BY <1>3, <2>8, <2>10, <2>12 DEF Complete
  <2>15. /\ cache' \in Seq(Entries) /\ Len(cache') <= CacheSize /\ Distinct(cache')
         /\ Range(cache') \subseteq Range(t)
      BY <2>13, <2>14, NewestEntries
  <2>16. Shape'
    <3>1. Submitted' /\ allowed' \in BOOLEAN
        BY <1>1 DEF IInv, Shape, Submitted
    <3>2. Cached'
        BY <1>1, <2>15 DEF IInv, Shape, Cached, Distinct
    <3> QED BY <2>7, <3>1, <3>2 DEF Shape
  <2>17. Counted' /\ Recorded' /\ Journalled'
      BY <1>1 DEF IInv, Counted, Recorded, Journalled
  <2>18. Fresh'
    <3>1. \A e \in Range(cache') : e \in Range(cache) \/ e = x
        BY <2>11, <2>13, <2>15
    <3>2. \A e \in Range(cache') : e.key[2] = "this" => answered[e.key[1]] \subseteq e.rows
        BY <2>4, <2>9, <3>1 DEF IInv, Fresh
    <3> QED BY <1>1, <3>2 DEF Fresh
  <2>19. Asking'
      BY <1>1, <2>7 DEF Asking
  <2> QED BY <2>16, <2>17, <2>18, <2>19 DEF IInv
<1> QED BY <1>2, <1>3

LEMMA InvTime == ASSUME IInv, MinutePassed \/ Aged \/ PauseEnds PROVE IInv'
<1>1. UNCHANGED <<book, late, post, journal, answered, sent, generation, read, op, allowed>>
    BY DEF MinutePassed, Aged, PauseEnds, submitVars
<1>2. /\ recent' \in Seq(Keys) /\ Len(recent') <= LimitSize /\ blocked' \in BOOLEAN
  <2>1. recent \in Seq(Keys) /\ Len(recent) <= LimitSize /\ blocked \in BOOLEAN /\ LimitSize \in Nat
      BY HistoryAssumption DEF IInv, Shape, Cached
  <2>2. CASE MinutePassed
    <3>1. recent # <<>> /\ recent' = Tail(recent) /\ blocked' = blocked
        BY <2>2 DEF MinutePassed
    <3>2. Tail(recent) \in Seq(Keys) /\ Len(Tail(recent)) = Len(recent) - 1 /\ Len(recent) \in Nat
        BY <2>1, <3>1
    <3> QED BY <2>1, <3>1, <3>2
  <2>3. CASE Aged \/ PauseEnds
      BY <2>1, <2>3 DEF Aged, PauseEnds
  <2> QED BY <2>2, <2>3
<1>3. /\ cache' \in Seq(Entries) /\ Len(cache') <= CacheSize /\ Distinct(cache')
      /\ \A e \in Range(cache') : \E x \in Range(cache) : e.key = x.key /\ e.rows = x.rows
  <2>0. cache \in Seq(Entries) /\ Len(cache) <= CacheSize /\ Distinct(cache)
      BY DEF IInv, Shape, Cached
  <2>1. CASE MinutePassed \/ PauseEnds
    <3>1. cache' = cache
        BY <2>1 DEF MinutePassed, PauseEnds
    <3> QED BY <2>0, <3>1
  <2>2. CASE Aged
    <3>1. PICK i \in DOMAIN cache :
             /\ cache[i].age < 2
             /\ cache' = [cache EXCEPT ![i].age = IF cache[i].partial THEN 2 ELSE @ + 1,
                                       ![i].partial = FALSE]
        BY <2>2 DEF Aged
    <3>2. cache[i] \in Entries
        BY <2>0
    <3>3. PICK x : x = [cache[i] EXCEPT !.age = IF cache[i].partial THEN 2 ELSE @ + 1,
                                        !.partial = FALSE]
        OBVIOUS
    <3>4. x \in Entries /\ x.key = cache[i].key /\ x.rows = cache[i].rows
      <4> DEFINE old == IF cache[i].partial THEN 2 ELSE cache[i].age + 1
      <4>1. cache[i].age \in 0..2 /\ cache[i].age < 2 /\ cache[i].key \in Keys
            /\ cache[i].rows \in SUBSET Attempts /\ cache[i].partial \in BOOLEAN
          BY <3>1, <3>2 DEF Entries, Ages
      <4>2. old \in 0..2
          BY <4>1
      <4>3. x = [[cache[i] EXCEPT !.age = old] EXCEPT !.partial = FALSE]
          BY <3>3
      <4> HIDE DEF old
      <4>4. x = [key |-> cache[i].key, rows |-> cache[i].rows, partial |-> FALSE, age |-> old]
          BY <3>2, <4>3 DEF Entries
      <4> QED BY <4>1, <4>2, <4>4 DEF Entries, Ages
    <3>5. cache' = [cache EXCEPT ![i] = x]
        BY <2>0, <3>1, <3>2, <3>3 DEF Entries
    <3>6. cache' \in Seq(Entries) /\ Len(cache') = Len(cache) /\ DOMAIN cache' = DOMAIN cache
          /\ \A j \in DOMAIN cache : cache'[j] = IF j = i THEN x ELSE cache[j]
        BY <2>0, <3>4, <3>5
    <3>7. \A j \in DOMAIN cache : cache'[j].key = cache[j].key /\ cache'[j].rows = cache[j].rows
        BY <3>4, <3>6
    <3> QED BY <2>0, <3>6, <3>7 DEF Distinct, Range
  <2> QED BY <2>1, <2>2
<1>4. Shape'
  <2>1. Distinct(cache)' <=> Distinct(cache')
      BY DEF Distinct
  <2> QED BY <1>1, <1>2, <1>3, <2>1 DEF IInv, Shape, Submitted, Cached
<1>5. Counted' /\ Recorded' /\ Journalled' /\ Asking'
    BY <1>1 DEF IInv, Counted, Recorded, Journalled, Asking, Waiting, Key
<1>6. Fresh'
  <2>1. ASSUME NEW e \in Range(cache'), e.key[2] = "this" PROVE answered[e.key[1]] \subseteq e.rows
      BY <1>3, <2>1 DEF IInv, Fresh
  <2> QED BY <1>1, <2>1 DEF IInv, Fresh
<1> QED BY <1>4, <1>5, <1>6 DEF IInv

-------------------------------------------------------------------------------
(* Submissions, rights and reloads.                                           *)
LEMMA InvConfirm == ASSUME IInv, NEW n \in Accounts, Confirm(n) PROVE IInv'
<1>1. /\ post = NoPost /\ sent < MaxAttempts /\ sent' = sent + 1
      /\ post' = [number |-> n, id |-> sent + 1, handled |-> FALSE]
      /\ UNCHANGED <<book, late, journal, answered, cache, recent, blocked, generation, read, op,
                     allowed>>
    BY DEF Confirm, cacheVars
<1>2. sent \in 0..MaxAttempts /\ MaxAttempts \in Nat
    BY HistoryAssumption DEF IInv, Shape, Submitted
<1>3. sent' \in 0..MaxAttempts /\ sent' \in Attempts
    BY <1>1, <1>2 DEF Attempts
<1>4. post' \in Posts /\ ~post'.handled
    BY <1>1, <1>3 DEF Posts
<1>5. Shape'
    BY <1>1, <1>3, <1>4 DEF IInv, Shape, Submitted, Cached, Distinct
<1>6. Counted'
    BY <1>1, <1>2, <1>4 DEF IInv, Counted
<1>7. Recorded' /\ Journalled' /\ Fresh' /\ Asking'
    BY <1>1, <1>4 DEF IInv, Recorded, Journalled, Fresh, Asking, Waiting, Key
<1> QED BY <1>5, <1>6, <1>7 DEF IInv

(* The cabinet records an attempt.                                            *)
LEMMA Recording ==
    ASSUME IInv, NEW n \in Accounts, NEW id \in Attempts, Record(n, id)
    PROVE  /\ book' \in [Accounts -> SUBSET Attempts] /\ id \in book'[n]
           /\ \A m \in Accounts : book[m] \subseteq book'[m] /\ answered[m] \subseteq book'[m]
BY DEF IInv, Shape, Submitted, Recorded, Record

LEMMA InvHandle == ASSUME IInv, Handle PROVE IInv'
<1>1. /\ post # NoPost /\ Record(post.number, post.id) /\ post' = [post EXCEPT !.handled = TRUE]
      /\ UNCHANGED <<late, journal, answered, sent, cache, recent, blocked, generation, read, op,
                     allowed>>
    BY DEF Handle, cacheVars
<1>2. post \in Posts /\ post.number \in Accounts /\ post.id \in Attempts
    BY <1>1 DEF IInv, Shape, Submitted, Posts
<1>3. post' \in Posts /\ post'.number = post.number /\ post'.id = post.id
    BY <1>1, <1>2 DEF Posts
<1>4. /\ book' \in [Accounts -> SUBSET Attempts] /\ post.id \in book'[post.number]
      /\ \A m \in Accounts : book[m] \subseteq book'[m] /\ answered[m] \subseteq book'[m]
    BY <1>1, <1>2, Recording
<1>5. Shape'
    BY <1>1, <1>3, <1>4 DEF IInv, Shape, Submitted, Cached, Distinct
<1>6. Counted'
  <2>1. post' # NoPost
      BY <1>3, HistoryAssumption
  <2> QED BY <1>1, <2>1 DEF IInv, Counted
<1>7. Recorded'
    BY <1>1, <1>3, <1>4 DEF Recorded
<1>8. Journalled' /\ Fresh' /\ Asking'
    BY <1>1 DEF IInv, Journalled, Fresh, Asking, Waiting, Key
<1> QED BY <1>5, <1>6, <1>7, <1>8 DEF IInv

LEMMA InvHandledLate == ASSUME IInv, HandledLate PROVE IInv'
<1>1. PICK p \in late : Record(p[1], p[2]) /\ late' = late \ {p}
    BY DEF HandledLate
<1>2. UNCHANGED <<post, journal, answered, sent, cache, recent, blocked, generation, read, op,
                 allowed>>
    BY DEF HandledLate, cacheVars
<1>3. p[1] \in Accounts /\ p[2] \in Attempts
    BY <1>1 DEF IInv, Shape, Submitted
<1>4. /\ book' \in [Accounts -> SUBSET Attempts]
      /\ \A m \in Accounts : book[m] \subseteq book'[m] /\ answered[m] \subseteq book'[m]
    BY <1>1, <1>3, Recording
<1>5. Shape'
    BY <1>1, <1>2, <1>4 DEF IInv, Shape, Submitted, Cached, Distinct
<1>6. Recorded'
  <2>1. post # NoPost => post.number \in Accounts
      BY DEF IInv, Shape, Submitted, Posts
  <2> QED BY <1>2, <1>4, <2>1 DEF IInv, Recorded
<1>7. Counted' /\ Journalled' /\ Fresh' /\ Asking'
    BY <1>2 DEF IInv, Counted, Journalled, Fresh, Asking, Waiting, Key
<1> QED BY <1>5, <1>6, <1>7 DEF IInv

(* Nothing of the account is left in the cache.                               *)
LEMMA Forgetting ==
    ASSUME IInv, NEW n \in Accounts
    PROVE  LET t == Forgotten(n)
           IN  /\ t \in Seq(Entries) /\ Len(t) <= CacheSize /\ Distinct(t)
               /\ \A e \in Range(t) : e \in Range(cache) /\ e.key # <<n, "this">>
<1>1. cache \in Seq(Entries) /\ Distinct(cache) /\ Len(cache) <= CacheSize
    BY DEF IInv, Shape, Cached
<1>2. PICK s : s = Without(cache, <<n, "this">>)
    OBVIOUS
<1>3. /\ s \in Seq(Entries) /\ Len(s) <= Len(cache) /\ Distinct(s)
      /\ \A e \in Range(s) : e \in Range(cache) /\ e.key # <<n, "this">>
    BY <1>1, <1>2, KeyGone
<1>4. PICK t : t = Without(s, <<n, "previous">>)
    OBVIOUS
<1>5. /\ t \in Seq(Entries) /\ Len(t) <= Len(s) /\ Distinct(t)
      /\ \A e \in Range(t) : e \in Range(s)
    BY <1>3, <1>4, KeyGone
<1>6. Len(t) <= CacheSize
  <2>1. Len(t) \in Nat /\ Len(s) \in Nat /\ Len(cache) \in Nat /\ CacheSize \in Nat
      BY <1>1, <1>3, <1>5, HistoryAssumption
  <2> QED BY <1>1, <1>3, <1>5, <2>1
<1>7. t = Forgotten(n)
    BY <1>2, <1>4 DEF Forgotten
<1> QED BY <1>3, <1>5, <1>6, <1>7

LEMMA InvAnswered == ASSUME IInv, NEW accepted \in BOOLEAN, Answered(accepted) PROVE IInv'
<1>1. /\ post # NoPost /\ (accepted => post.handled) /\ post' = NoPost
      /\ generation' = generation + 1 /\ cache' = Forgotten(post.number)
      /\ UNCHANGED <<book, sent, recent, blocked, read, op, allowed>>
    BY DEF Answered, Invalidate
<1>2. PICK n : n = post.number
    OBVIOUS
<1>3. post \in Posts /\ n \in Accounts /\ post.id \in Attempts
    BY <1>1, <1>2 DEF IInv, Shape, Submitted, Posts
<1>4. PICK row : row = [id |-> post.id, accepted |-> accepted]
    OBVIOUS
<1>5. row \in Results /\ row.id = post.id /\ row.accepted = accepted
    BY <1>3, <1>4 DEF Results
<1>6. journal' = [journal EXCEPT ![n] = row] /\ answered' = [answered EXCEPT ![n] = book[n]]
    BY <1>2, <1>4 DEF Answered
<1>7. late' \subseteq Accounts \X Attempts
    BY <1>3, <1>2 DEF Answered, IInv, Shape, Submitted
<1>8. /\ answered' \in [Accounts -> SUBSET Attempts] /\ answered'[n] = book[n]
      /\ \A m \in Accounts : answered[m] \subseteq answered'[m] /\ answered'[m] \subseteq book[m]
      /\ \A m \in Accounts \ {n} : answered'[m] = answered[m]
    BY <1>3, <1>6 DEF IInv, Shape, Submitted, Recorded
<1>9. /\ cache' \in Seq(Entries) /\ Len(cache') <= CacheSize /\ Distinct(cache')
      /\ \A e \in Range(cache') : e \in Range(cache) /\ e.key # <<n, "this">>
    BY <1>1, <1>2, <1>3, Forgetting
<1>10. Shape'
  <2>1. Distinct(cache)' <=> Distinct(cache')
      BY DEF Distinct
  <2>2. journal' \in [Accounts -> Results \cup {NoAttempt}]
      BY <1>5, <1>6 DEF IInv, Shape, Submitted
  <2> QED BY <1>1, <1>7, <1>8, <1>9, <2>1, <2>2 DEF IInv, Shape, Submitted, Cached
<1>11. Counted' /\ (read # NoRead => read.generation # generation')
  <2>1. /\ generation \in 0..MaxAttempts /\ sent \in 0..MaxAttempts /\ generation + 1 <= sent
        /\ MaxAttempts \in Nat
      BY <1>1, HistoryAssumption DEF IInv, Counted, Shape, Submitted
  <2>2. read # NoRead => read.generation \in 0..MaxAttempts /\ read.generation <= generation
      BY DEF IInv, Counted, Shape, Cached, Reads
  <2> QED BY <1>1, <2>1, <2>2 DEF Counted
<1>12. Recorded'
    BY <1>1, <1>8 DEF Recorded
<1>13. Journalled'
  <2>1. ASSUME NEW m \in Accounts PROVE Settled(m, journal'[m], answered')
    <3>1. CASE m = n
      <4>1. journal'[m] = row
          BY <1>3, <1>6, <3>1 DEF IInv, Shape, Submitted
      <4>2. row.accepted => row.id \in book[n]
          BY <1>1, <1>2, <1>5 DEF IInv, Recorded
      <4> QED BY <1>8, <3>1, <4>1, <4>2 DEF Settled, Accepted
    <3>2. CASE m # n
      <4>1. journal'[m] = journal[m]
          BY <1>6, <3>2 DEF IInv, Shape, Submitted
      <4> QED BY <1>8, <4>1 DEF IInv, Journalled, Settled
    <3> QED BY <3>1, <3>2
  <2> QED BY <2>1 DEF Journalled
<1>14. Fresh'
  <2>1. ASSUME NEW e \in Range(cache'), e.key[2] = "this" PROVE answered'[e.key[1]] \subseteq e.rows
    <3>1. e \in Range(cache) /\ e.key # <<n, "this">> /\ e \in Entries
        BY <1>9, <2>1 DEF Range
    <3>2. e.key[1] \in Accounts /\ e.key[1] # n
        BY <2>1, <3>1 DEF Entries, Keys
    <3> QED BY <1>8, <2>1, <3>1, <3>2 DEF IInv, Fresh
  <2> QED BY <1>1, <1>11, <2>1 DEF Fresh
<1>15. Asking'
  <2>1. ASSUME NEW r \in Readers, op[r] \notin {Idle, Shown} PROVE HasSeen(op[r], answered')
    <3>1. op[r] \in Asked /\ op[r].number \in Accounts /\ HasSeen(op[r], answered)
        BY <2>1, IsAsked DEF IInv, Shape, Asking, Asked
    <3> QED BY <1>8, <3>1 DEF HasSeen, Settled
  <2> QED BY <1>1, <2>1 DEF IInv, Asking, Waiting, Key
<1> QED BY <1>10, <1>11, <1>12, <1>13, <1>14, <1>15 DEF IInv

LEMMA InvOther == ASSUME IInv, RightsChange \/ Reload \/ UNCHANGED vars PROVE IInv'
<1>1. CASE RightsChange
  <2>1. UNCHANGED <<book, late, post, journal, answered, sent, cache, recent, blocked, generation,
                   read, op>> /\ allowed' \in BOOLEAN
      BY <1>1 DEF RightsChange, submitVars, cacheVars
  <2> QED BY <2>1 DEF IInv, Shape, Submitted, Cached, Distinct, Counted, Recorded, Journalled, Fresh,
                      Asking, Waiting, Key
<1>2. CASE UNCHANGED vars
  <2>1. UNCHANGED <<book, late, post, journal, answered, sent, cache, recent, blocked, generation,
                   read, op, allowed>>
      BY <1>2 DEF vars, submitVars, cacheVars
  <2> QED BY <2>1 DEF IInv, Shape, Submitted, Cached, Distinct, Counted, Recorded, Journalled, Fresh,
                      Asking, Waiting, Key
<1>3. CASE Reload
  <2>1. /\ UNCHANGED <<book, late, post, journal, answered, sent, allowed>>
        /\ cache' = <<>> /\ recent' = <<>> /\ blocked' = FALSE /\ generation' = 0 /\ read' = NoRead
      BY <1>3 DEF Reload, submitVars
  <2>2. ASSUME NEW r \in Readers
        PROVE  /\ op'[r] \in Asked \cup {Idle, Shown}
               /\ op'[r] \notin {Idle, Shown} => HasSeen(op'[r], answered)
    <3>1. CASE op[r] \in {Idle, Shown}
        BY <1>3, <3>1 DEF Reload
    <3>2. CASE op[r] \notin {Idle, Shown}
      <4>1. op[r] \in Asked /\ HasSeen(op[r], answered)
          BY <3>2, IsAsked DEF IInv, Shape, Asking
      <4>2. PICK rec : rec = [op[r] EXCEPT !.live = FALSE]
          OBVIOUS
      <4>3. /\ rec \in Asked /\ rec.number = op[r].number /\ rec.attempt = op[r].attempt
            /\ rec.live = FALSE
          BY <4>1, <4>2 DEF Asked
      <4>4. op'[r] = rec
          BY <1>3, <3>2, <4>2 DEF Reload
      <4> QED BY <4>1, <4>3, <4>4 DEF HasSeen
    <3> QED BY <3>1, <3>2
  <2>3. op' \in [Readers -> Asked \cup {Idle, Shown}]
      BY <1>3, <2>2 DEF Reload
  <2>4. /\ <<>> \in Seq(Entries) /\ Len(<<>>) = 0 /\ Distinct(<<>>) /\ <<>> \in Seq(Keys)
        /\ Range(<<>>) = {}
      BY DEF Distinct, Range
  <2>5. Shape'
    <3>1. 0 <= CacheSize /\ 0 <= LimitSize
        BY HistoryAssumption
    <3>2. Distinct(cache)' <=> Distinct(cache')
        BY DEF Distinct
    <3>3. Submitted' /\ allowed' \in BOOLEAN
        BY <2>1 DEF IInv, Shape, Submitted
    <3>4. Cached'
        BY <2>1, <2>4, <3>1, <3>2 DEF Cached
    <3> QED BY <2>3, <3>3, <3>4 DEF Shape
  <2>6. Counted'
    <3>1. 0 \in 0..MaxAttempts /\ post' = post /\ sent' = sent
          /\ generation \in 0..MaxAttempts /\ sent \in 0..MaxAttempts
        BY <2>1, HistoryAssumption DEF IInv, Counted, Shape, Submitted
    <3> QED BY <2>1, <3>1 DEF IInv, Counted
  <2>7. Recorded' /\ Journalled' /\ Fresh' /\ Asking'
      BY <2>1, <2>2, <2>4 DEF IInv, Recorded, Journalled, Fresh, Asking
  <2> QED BY <2>5, <2>6, <2>7 DEF IInv
<1> QED BY <1>1, <1>2, <1>3

LEMMA Initial == Init => IInv
<1> SUFFICES ASSUME Init PROVE IInv
    OBVIOUS
<1>1. 0 \in 0..MaxAttempts /\ 0 <= CacheSize /\ 0 <= LimitSize
    BY HistoryAssumption
<1>2. /\ <<>> \in Seq(Entries) /\ Len(<<>>) = 0 /\ Distinct(<<>>) /\ <<>> \in Seq(Keys)
      /\ Range(<<>>) = {}
    BY DEF Distinct, Range
<1>3. Shape
  <2>1. Submitted
      BY <1>1 DEF Init, Submitted
  <2>2. Cached
      BY <1>1, <1>2 DEF Init, Cached
  <2>3. op \in [Readers -> Asked \cup {Idle, Shown}] /\ allowed \in BOOLEAN
      BY DEF Init
  <2> QED BY <2>1, <2>2, <2>3 DEF Shape
<1>4. Counted
    BY <1>1 DEF Init, Counted
<1>5. Recorded /\ Journalled
    BY DEF Init, Recorded, Journalled, Settled, Accepted
<1>6. Fresh
    BY <1>2 DEF Init, Fresh
<1>7. Asking
    BY DEF Init, Asking
<1> QED BY <1>3, <1>4, <1>5, <1>6, <1>7 DEF IInv

LEMMA Preserved == IInv /\ [Next]_vars => IInv'
<1> SUFFICES ASSUME IInv, [Next]_vars PROVE IInv'
    OBVIOUS
<1>1. ASSUME NEW n \in Accounts, Confirm(n) PROVE IInv'
    BY <1>1, InvConfirm
<1>2. ASSUME NEW n \in Accounts, NEW r \in Readers,
             AskHistory(r, n) \/ AskReadback(r, n) \/ AskBot(r, n)
      PROVE  IInv'
    BY <1>2, InvBegin
<1>3. CASE Handle \/ HandledLate \/ \E a \in BOOLEAN : Answered(a)
    BY <1>3, InvHandle, InvHandledLate, InvAnswered
<1>4. ASSUME NEW r \in Readers, Get(r) \/ BotLooksBack(r) \/ Deliver(r) \/ Outlived(r) PROVE IInv'
    BY <1>4, InvGet, InvBotLooksBack, InvDeliver, InvOutlived
<1>5. CASE Page \/ \E b \in BOOLEAN : Complete(b) \/ Broken(b)
    BY <1>5, InvPage, InvComplete, InvBroken
<1>6. CASE MinutePassed \/ Aged \/ PauseEnds
    BY <1>6, InvTime
<1>7. CASE RightsChange \/ Reload \/ UNCHANGED vars
    BY <1>7, InvOther
<1> QED BY <1>1, <1>2, <1>3, <1>4, <1>5, <1>6, <1>7 DEF Next

LEMMA TypeOfIInv == IInv => TypeOK
<1> SUFFICES ASSUME IInv PROVE TypeOK
    OBVIOUS
<1>1. \A e \in Range(cache) : e \in Entries
    BY DEF IInv, Shape, Cached, Range
<1>2. Range(recent) \subseteq Keys
    BY DEF IInv, Shape, Cached, Range
<1>3. \A e \in Range(cache) : e.key \in Keys /\ e.age \in Ages /\ e.rows \subseteq Attempts
    BY <1>1 DEF Entries
<1>4. {allowed, blocked} \subseteq BOOLEAN
    BY DEF IInv, Shape, Cached
<1> QED BY <1>2, <1>3, <1>4 DEF TypeOK, IInv, Shape, Submitted, Cached, Counted, Distinct

(* Whatever is cached of this year has every record that the cabinet had when *)
(* the last submission of its account returned; the caches keep to their      *)
(* sizes, one entry for each key (account_history.py:215-255).                *)
THEOREM CacheForgets == Spec => []CacheIsAfterSubmission
<1>1. IInv => CacheIsAfterSubmission
    BY TypeOfIInv DEF IInv, Fresh, CacheIsAfterSubmission
<1> QED BY Initial, Preserved, <1>1, PTL DEF Spec

(* A readback of a card or a bot never denies an accepted attempt, and what   *)
(* was read before a reload or a loss of rights is not shown                  *)
(* (account_history_api.py:374, :437, bot_api.py:288).                        *)
THEOREM ReadbacksAreTruthful == Spec => TruthfulReadback
<1> DEFINE Truthful(r) ==
        Shows(r) =>
           /\ Verdict(op[r].attempt, op[r].rows) = "not_found" => ~Accepted(op[r].attempt)
           /\ allowed /\ op[r].live
<1>1. ASSUME IInv, [Next]_vars PROVE \A r \in Readers : Truthful(r)
  <2>1. SUFFICES ASSUME NEW r \in Readers, Shows(r)
                 PROVE  /\ Verdict(op[r].attempt, op[r].rows) = "not_found" => ~Accepted(op[r].attempt)
                        /\ allowed /\ op[r].live
      OBVIOUS
  <2>2. /\ op[r] \in Asked /\ op[r] \notin {Idle, Shown} /\ op[r].todo = <<>> /\ op'[r] = Shown
        /\ HasSeen(op[r], answered)
    <3>1. op[r] \notin {Idle, Shown} /\ op[r].todo = <<>> /\ op'[r] = Shown
        BY <2>1 DEF Shows, Finished
    <3>2. op[r] \in Asked \cup {Idle, Shown} /\ HasSeen(op[r], answered)
        BY <1>1, <3>1 DEF IInv, Shape, Asking
    <3> QED BY <3>1, <3>2, IsAsked
  <2>3. op'[r] # op[r] /\ op[r].kind \in {"card", "bot"} /\ Shown.kind = "shown"
      BY <2>2 DEF Asked, Shown
  <2>4. allowed /\ op[r].live
    <3>1. op \in [Readers -> Asked \cup {Idle, Shown}]
        BY <1>1 DEF IInv, Shape
    <3>2. ~(\E n \in Accounts : Confirm(n)) /\ ~Handle /\ ~HandledLate
          /\ ~(\E a \in BOOLEAN : Answered(a)) /\ ~Page /\ ~MinutePassed /\ ~Aged /\ ~PauseEnds
          /\ ~RightsChange /\ ~(UNCHANGED vars)
        BY <2>3 DEF Confirm, Handle, HandledLate, Answered, Page, MinutePassed, Aged, PauseEnds,
                    RightsChange, vars
    <3>3. ASSUME NEW b \in BOOLEAN, Complete(b) \/ Broken(b) PROVE FALSE
      <4>1. read # NoRead
          BY <3>3 DEF Complete, Broken
      <4>2. read.by # r
          BY <1>1, <2>2, <4>1, ReadingReader DEF Waiting
      <4>3. \E rec : op' = [op EXCEPT ![read.by] = rec]
          BY <3>3 DEF Complete, Broken
      <4> QED BY <2>3, <3>1, <4>2, <4>3
    <3>4. ASSUME NEW q \in Readers, NEW n \in Accounts, AskHistory(q, n) \/ AskReadback(q, n) \/ AskBot(q, n)
          PROVE  FALSE
      <4>1. op[q] \in {Idle, Shown} /\ \E rec : op' = [op EXCEPT ![q] = rec]
          BY <3>4 DEF AskHistory, AskReadback, AskBot, Begin
      <4> QED BY <2>2, <2>3, <3>1, <4>1
    <3>5. ASSUME NEW q \in Readers, Get(q) \/ Outlived(q) PROVE FALSE
      <4>1. op[q].todo # <<>>
          BY <3>5 DEF Get, Waiting, Outlived
      <4>2. op' = op \/ \E rec : op' = [op EXCEPT ![q] = rec]
        <5>1. CASE Get(q)
            BY <5>1 DEF Get
        <5>2. CASE Outlived(q)
            BY <5>2 DEF Outlived
        <5> QED BY <3>5, <5>1, <5>2
      <4> QED BY <2>2, <2>3, <3>1, <4>1, <4>2
    <3>6. ASSUME NEW q \in Readers, BotLooksBack(q) PROVE FALSE
      <4>1. PICK todo : op' = [op EXCEPT ![q].looked = TRUE, ![q].todo = todo]
          BY <3>6 DEF BotLooksBack
      <4>2. q # r => op'[r] = op[r]
          BY <3>1, <4>1
      <4>3. op'[r] = [op[r] EXCEPT !.looked = TRUE, !.todo = todo]
          BY <2>3, <3>1, <4>1, <4>2
      <4>4. op'[r].kind = op[r].kind
          BY <2>2, <4>3 DEF Asked
      <4> QED BY <2>2, <2>3, <4>4
    <3>7. ASSUME Reload PROVE FALSE
      <4>1. op'[r] = [op[r] EXCEPT !.live = FALSE]
          BY <2>2, <3>7 DEF Reload
      <4>2. op'[r].kind = op[r].kind
          BY <2>2, <4>1 DEF Asked
      <4> QED BY <2>2, <2>3, <4>2
    <3>8. PICK q \in Readers : Deliver(q)
        BY <1>1, <3>2, <3>3, <3>4, <3>5, <3>6, <3>7 DEF Next
    <3>9. q = r
        BY <2>3, <3>1, <3>8 DEF Deliver
    <3>10. Idle # Shown
        BY DEF Idle, Shown
    <3> QED BY <2>2, <3>1, <3>8, <3>9, <3>10 DEF Deliver
  <2>5. "this" \notin Range(op[r].todo)
      BY <2>2 DEF Range
  <2>6. Accepted(op[r].attempt) => op[r].attempt.id \in op[r].rows
      BY <2>2, <2>4, <2>5 DEF HasSeen
  <2>7. Verdict(op[r].attempt, op[r].rows) = "not_found" => ~Accepted(op[r].attempt)
      BY <2>6 DEF Verdict, Accepted
  <2> QED BY <2>4, <2>7
<1>2. IInv /\ [Next]_vars => [\A r \in Readers : Truthful(r)]_vars
    BY <1>1
<1> QED BY Initial, Preserved, <1>2, PTL DEF Spec, TruthfulReadback
===============================================================================
