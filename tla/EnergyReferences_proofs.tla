------------------------ MODULE EnergyReferences_proofs ------------------------
(* Proofs about EnergyReferences, for every number of zones, devices and      *)
(* operations: a fault that was saved stays, and no discontinuity of a sensor *)
(* whose report has arrived is forgotten.                                     *)
EXTENDS EnergyReferences, TLAPS

(* Operations as they wait in the queue.                                      *)
Reports  == [op : {"observe"}, zone : Zones, sample : Samples]
Requests == [op : {"get", "preview", "remove", "close"}]
                \cup [op : {"save", "check", "confirm"}, token : Tokens]
Operations == Reports \cup Requests

Reported(q, i, z) == q[i].op = "observe" /\ q[i].zone = z

(* The report at i of the queue will mark the row, if nothing has by then: it  *)
(* is of another device, or below what was reported before.                   *)
Kills(row, z, q, i) ==
    /\ Reported(q, i, z)
    /\ q[i].sample.epoch > row.epoch
    /\ \/ q[i].sample.device # row.device
       \/ q[i].sample.value < row.high
       \/ \E j \in DOMAIN q : j < i /\ Reported(q, j, z)
                                    /\ q[j].sample.value > q[i].sample.value

(* A row without a fault that is of the sensor's epoch knows its highest value *)
(* or will; of an earlier one, a report that will mark it waits, and no later *)
(* than one of the sensor's epoch.                                            *)
Followed(row, z, q, s) ==
    row.fault = "none" =>
        /\ row.epoch < s.epoch =>
              \E i, j \in DOMAIN q :
                 /\ Kills(row, z, q, i)
                 /\ i <= j /\ Reported(q, j, z) /\ q[j].sample.epoch = s.epoch
        /\ row.epoch = s.epoch =>
              /\ s.device = row.device
              /\ \/ row.high >= s.value
                 \/ \E i \in DOMAIN q : Reported(q, i, z) /\ q[i].sample.value >= s.value

Follows(binding, q, s) ==
    binding.ref >= doubt => \A z \in Zones : Followed(binding.rows[z], z, q, s[z])

Changes == {t \in tokens : t.kind = "change"}

-------------------------------------------------------------------------------
(* The inductive invariant, for a queue q and the sensors s.                   *)

(* TypeOK, the operations that wait, and what tells references apart.         *)
Shape ==
    /\ TypeOK
    /\ queue \in Seq(Operations) /\ (listening => Len(queue) <= MaxQueue)
    /\ holder \in Writes \cup {NoOp}
    /\ \A t \in Changes : t.binding \in Bindings
    /\ \A b \in {data, disk, target} \ {NoBinding} : b.ref < nextRef
    /\ \A p \in latched : p[1] < nextRef

(* Only an open manager writes; the listener ends before the lock is asked    *)
(* for, and after a failure nothing is vouched for.                           *)
Closing(q) ==
    /\ holder = NoOp => target = NoBinding
    /\ manager # "open" => holder = NoOp
    /\ manager = "open" => disk = data
    /\ manager = "failed" /\ listening => doubt = nextRef
    /\ listening => \A i \in DOMAIN q : q[i].op # "close"
    /\ \A i, j \in DOMAIN q : i < j /\ q[i].op = "close" => q[j].op # "observe"

(* What is being written is a new pair without a fault, or the one in force.  *)
Writing ==
    holder # NoOp =>
        /\ holder.op = "save" =>
              /\ holder.result \in Tokens /\ holder.result.kind = "change"
              /\ target # NoBinding /\ Faultless(target)
              /\ holder.result.binding.ref = target.ref
              /\ data # NoBinding => target.ref # data.ref
              /\ \A z \in Zones : <<target.ref, z>> \notin latched
              /\ \A t \in Changes : t.binding.ref = target.ref => t = holder.result
        /\ holder.op # "save" =>
              /\ holder.result # NoToken => holder.result.kind = "proposal"
              /\ target # NoBinding =>
                    /\ data # NoBinding /\ target.ref = data.ref
                    /\ \A z \in Zones :
                          /\ target.rows[z].epoch = data.rows[z].epoch
                          /\ data.rows[z].fault # "none" => target.rows[z].fault # "none"

(* A change under review has a reference of its own.                          *)
Reviewed ==
    manager = "open" =>
        \A t \in Changes :
            /\ data # NoBinding => t.binding.ref # data.ref
            /\ \A z \in Zones : <<t.binding.ref, z>> \notin latched
            /\ \A u \in Changes : u.binding.ref = t.binding.ref => u = t

Kept ==
    \A b \in {data, disk, target} \ {NoBinding} :
        \A z \in Zones : <<b.ref, z>> \in latched => b.rows[z].fault # "none"

(* The reference in force, or the one that will be once it is written, and the *)
(* changes under review follow the sensors.                                   *)
Heard(q, s) ==
    /\ manager = "open" =>
          /\ target # NoBinding => Follows(target, q, s)
          /\ data # NoBinding /\ (target = NoBinding \/ target.ref # data.ref) =>
                Follows(data, q, s)
          /\ \A t \in Changes : Follows(t.binding, q, s)
    /\ manager # "open" /\ disk # NoBinding => Follows(disk, <<>>, s)

(* In the epoch in which it was captured, a pair gives what the meter shows.   *)
Fits(row, s, m) ==
    row.epoch <= s.epoch /\ (row.epoch = s.epoch => m = row.meter + s.value - row.source)

Fitting(s, m) ==
    \A b \in ({data, disk, target} \ {NoBinding}) \cup {t.binding : t \in Changes} :
        \A z \in Zones : Fits(b.rows[z], s[z], m[z])

(* The proposals that are held, asked to be validated, being returned or about *)
(* to be sent.                                                                *)
Asked(q, i) == q[i].op \in {"check", "confirm"}

Offers(q) ==
    {t \in tokens : t.kind = "proposal"}
        \cup {q[i].token : i \in {j \in DOMAIN q : Asked(q, j)}}
        \cup (IF holder = NoOp \/ holder.op \notin {"get", "check", "confirm"} THEN {}
              ELSE {holder.result} \ {NoToken})
        \cup ({sending} \ {NoToken})

Truthful(p) == \A z \in Zones : p.readings[z] = p.truth[z].meter

(* The binding that the next operation will find.                             *)
InForce == IF target # NoBinding /\ holder.op # "save" THEN target ELSE data

Moot(binding, p) ==
    binding = NoBinding \/ binding.ref # p.base[1] \/ ~Faultless(binding)

(* No request to validate the proposal is ahead of i.                          *)
Ahead(q, i, p) == \A j \in DOMAIN q : j < i => ~(Asked(q, j) /\ q[j].token = p)

(* A proposal that says too little will be refused: a report that marks its    *)
(* reference is ahead of every request to validate it.                        *)
Refusable(binding, p, q) ==
    \E z \in Zones, i \in DOMAIN q : Kills(binding.rows[z], z, q, i) /\ Ahead(q, i, p)

Vouched(p) == Truthful(p) \/ p.base[1] < doubt

Offered(q, s) ==
    manager = "open" =>
        /\ \A p \in Offers(q) :
              /\ 0 < p.base[1] /\ p.base[1] < nextRef /\ p.base[2] = {}
              /\ \A t \in Changes : t.binding.ref # p.base[1]
              /\ holder # NoOp /\ holder.op = "save" => target.ref # p.base[1]
              /\ \A z \in Zones : p.truth[z].epoch <= s[z].epoch
              /\ data # NoBinding /\ data.ref = p.base[1] =>
                    \A z \in Zones : data.rows[z].epoch <= p.truth[z].epoch
              /\ Vouched(p) \/ Moot(InForce, p) \/ Refusable(InForce, p, q)
        /\ sending # NoToken => Vouched(sending)
        /\ holder # NoOp /\ holder.op = "confirm" /\ holder.result # NoToken =>
              Vouched(holder.result)

Sound(q, s, m) ==
    Closing(q) /\ Writing /\ Reviewed /\ Kept /\ Heard(q, s) /\ Fitting(s, m) /\ Offered(q, s)

IInv == Shape /\ Sound(queue, source, meter)
-------------------------------------------------------------------------------
(* What tracking makes of a row, and of a binding.                             *)

(* _track keeps the pair, never lowers the highest value and never lifts a     *)
(* fault; a row that stays without one has taken the report up.               *)
LEMMA TrackOne ==
    ASSUME ReferenceConstants,
           NEW row \in Rows, NEW sample \in Samples, NEW new \in Track(row, sample)
    PROVE  /\ new \in Rows
           /\ new.epoch = row.epoch /\ new.meter = row.meter
           /\ new.source = row.source /\ new.device = row.device
           /\ new.high >= row.high
           /\ row.fault # "none" => new = row
           /\ new.fault = "none" =>
                 /\ row.fault = "none" /\ sample.device = row.device
                 /\ sample.value >= row.high /\ new.high = sample.value
<1>1. /\ row.high \in Int /\ sample.value \in Int /\ sample.value \in 0..MaxValue
      /\ row.high \in 0..MaxValue
  BY DEF ReferenceConstants, Rows, Samples
<1>2. CASE row.fault # "none"
  BY <1>1, <1>2 DEF Track
<1>3. CASE row.fault = "none" /\ sample.device # row.device
  <2>1. new = [row EXCEPT !.fault = "source_changed"]
    BY <1>3 DEF Track
  <2> QED
    BY <1>1, <1>3, <2>1 DEF Rows, Faults
<1>4. CASE row.fault = "none" /\ sample.device = row.device /\ sample.value < row.high
  <2>1. new = [row EXCEPT !.fault = "source_reset"]
    BY <1>4 DEF Track
  <2> QED
    BY <1>1, <1>4, <2>1 DEF Rows, Faults
<1>5. CASE row.fault = "none" /\ sample.device = row.device /\ ~(sample.value < row.high)
  <2>1. \/ new = [row EXCEPT !.high = sample.value]
        \/ new = [row EXCEPT !.fault = "source_jump"]
    BY <1>5 DEF Track
  <2> QED
    BY <1>1, <1>5, <2>1 DEF Rows, Faults
<1> QED
  BY <1>2, <1>3, <1>4, <1>5

(* A binding that was tracked is the same pair.                                *)
Continues(new, old) ==
    /\ new \in Bindings /\ new.ref = old.ref
    /\ \A z \in Zones :
          /\ new.rows[z].epoch = old.rows[z].epoch
          /\ new.rows[z].meter = old.rows[z].meter
          /\ new.rows[z].source = old.rows[z].source
          /\ new.rows[z].device = old.rows[z].device
          /\ new.rows[z].high >= old.rows[z].high
          /\ old.rows[z].fault # "none" => new.rows[z].fault # "none"

(* _view and observe track every zone that was read, and no other.             *)
LEMMA TrackMany ==
    ASSUME ReferenceConstants,
           NEW binding \in Bindings, NEW read \in SUBSET Zones,
           NEW samples \in [Zones -> Samples], NEW new \in TrackAll(binding, read, samples)
    PROVE  /\ Continues(new, binding)
           /\ \A z \in read : new.rows[z] \in Track(binding.rows[z], samples[z])
           /\ \A z \in Zones \ read : new.rows[z] = binding.rows[z]
<1>1. PICK r \in [Zones -> UNION {Track(binding.rows[z], samples[z]) \cup {binding.rows[z]} :
                                     z \in Zones}] :
          /\ \A z \in Zones : r[z] \in IF z \in read THEN Track(binding.rows[z], samples[z])
                                                     ELSE {binding.rows[z]}
          /\ new = [binding EXCEPT !.rows = r]
  BY Zenon DEF TrackAll
<1>2. /\ binding.ref \in 1..MaxRefs /\ binding.rows \in [Zones -> Rows]
      /\ binding = [ref |-> binding.ref, rows |-> binding.rows]
  BY DEF Bindings
<1>3. new = [ref |-> binding.ref, rows |-> r]
  BY <1>1, <1>2
<1>4. \A z \in read : r[z] \in Track(binding.rows[z], samples[z])
  BY <1>1
<1>5. \A z \in Zones \ read : r[z] = binding.rows[z]
  BY <1>1
<1>6. ASSUME NEW z \in Zones
      PROVE  /\ r[z] \in Rows
             /\ r[z].epoch = binding.rows[z].epoch /\ r[z].meter = binding.rows[z].meter
             /\ r[z].source = binding.rows[z].source /\ r[z].device = binding.rows[z].device
             /\ r[z].high >= binding.rows[z].high
             /\ binding.rows[z].fault # "none" => r[z].fault # "none"
  <2>1. binding.rows[z] \in Rows /\ samples[z] \in Samples
    BY <1>2
  <2>2. CASE z \in read
    BY <1>4, <2>1, <2>2, TrackOne
  <2>3. CASE z \notin read
    <3>1. r[z] = binding.rows[z]
      BY <1>5, <2>3
    <3>2. binding.rows[z].high \in Int
      BY <2>1 DEF Rows, ReferenceConstants
    <3> QED
      BY <2>1, <3>1, <3>2
  <2> QED
    BY <2>2, <2>3
<1>7. r \in [Zones -> Rows]
  BY <1>1, <1>6
<1>8. new \in Bindings /\ new.ref = binding.ref /\ new.rows = r
  BY <1>2, <1>3, <1>7 DEF Bindings
<1> QED
  BY <1>4, <1>5, <1>6, <1>8 DEF Continues

-------------------------------------------------------------------------------
(* The queue.                                                                  *)

LEMMA ReportsAreTyped ==
    ASSUME NEW op \in Operations, op.op = "observe"
    PROVE  op.zone \in Zones /\ op.sample \in Samples /\ op \in Reports
BY DEF Operations, Reports, Requests

LEMMA Appended ==
    ASSUME NEW q \in Seq(Operations), NEW op \in Operations
    PROVE  /\ Append(q, op) \in Seq(Operations)
           /\ Len(Append(q, op)) = Len(q) + 1 /\ Len(q) \in Nat
           /\ DOMAIN q = 1..Len(q) /\ DOMAIN Append(q, op) = 1..(Len(q) + 1)
           /\ \A i \in DOMAIN q : Append(q, op)[i] = q[i] /\ q[i] \in Operations
           /\ Append(q, op)[Len(q) + 1] = op
  OBVIOUS

LEMMA Advanced ==
    ASSUME NEW q \in Seq(Operations), q # <<>>
    PROVE  /\ Tail(q) \in Seq(Operations) /\ Len(Tail(q)) = Len(q) - 1
           /\ Len(q) \in Nat \ {0} /\ Head(q) = q[1] /\ Head(q) \in Operations
           /\ DOMAIN q = 1..Len(q) /\ DOMAIN Tail(q) = 1..(Len(q) - 1)
           /\ \A i \in DOMAIN q : q[i] \in Operations
           /\ \A i \in DOMAIN Tail(q) : Tail(q)[i] = q[i + 1]
  OBVIOUS

(* A report that will mark a row still will when others have come behind it.   *)
LEMMA KillsAppended ==
    ASSUME NEW q \in Seq(Operations), NEW op \in Operations, NEW row, NEW z, NEW i \in DOMAIN q,
           Kills(row, z, q, i)
    PROVE  i \in DOMAIN Append(q, op) /\ Kills(row, z, Append(q, op), i)
<1>1. /\ i \in DOMAIN Append(q, op) /\ Append(q, op)[i] = q[i]
      /\ \A j \in DOMAIN q : j \in DOMAIN Append(q, op) /\ Append(q, op)[j] = q[j]
  BY Appended
<1> QED
  BY <1>1, Zenon DEF Kills, Reported

(* Nor does it fail to when another operation has run: a report before it has  *)
(* raised what it is compared with, if it has not marked the row itself.      *)
LEMMA KillsAdvanced ==
    ASSUME ReferenceConstants, NEW q \in Seq(Operations), q # <<>>,
           NEW row \in Rows, NEW new \in Rows, NEW z, NEW i \in DOMAIN q, Kills(row, z, q, i),
           new.epoch = row.epoch, new.device = row.device, new.high >= row.high,
           Head(q).op = "observe" /\ Head(q).zone = z =>
               /\ Head(q).sample.device = row.device
               /\ Head(q).sample.value >= row.high /\ new.high = Head(q).sample.value
    PROVE  i # 1 /\ i - 1 \in DOMAIN Tail(q) /\ Kills(new, z, Tail(q), i - 1)
<1> DEFINE t == Tail(q)
<1>1. /\ i \in 1..Len(q) /\ Len(q) \in Nat /\ DOMAIN t = 1..(Len(q) - 1) /\ DOMAIN q = 1..Len(q)
      /\ \A k \in DOMAIN t : t[k] = q[k + 1]
      /\ Head(q) = q[1] /\ q[i] \in Operations
  BY Advanced
<1>2. Reported(q, i, z) /\ q[i].sample.epoch > row.epoch
  BY DEF Kills
<1>3. q[i].sample \in Samples
  BY <1>1, <1>2, ReportsAreTyped DEF Reported
<1>4. q[i].sample.value \in Int /\ row.high \in Int /\ new.high \in Int
  BY <1>3 DEF Samples, Rows, ReferenceConstants
<1>5. i # 1
  <2>1. SUFFICES ASSUME i = 1 PROVE FALSE
    OBVIOUS
  <2>2. /\ q[1].sample.device = row.device /\ q[1].sample.value >= row.high
    BY <1>1, <1>2, <2>1 DEF Reported
  <2>3. ~(\E j \in DOMAIN q : j < 1)
    BY <1>1
  <2> QED
    BY <1>4, <2>1, <2>2, <2>3 DEF Kills
<1>6. i - 1 \in DOMAIN t /\ t[i - 1] = q[i]
  BY <1>1, <1>5
<1>7. Reported(t, i - 1, z) /\ t[i - 1].sample.epoch > new.epoch
  BY <1>2, <1>6 DEF Reported
<1>8. CASE q[i].sample.device # row.device
  BY <1>6, <1>7, <1>8 DEF Kills
<1>9. CASE q[i].sample.value < row.high
  BY <1>4, <1>6, <1>7, <1>9 DEF Kills
<1>10. CASE \E j \in DOMAIN q : j < i /\ Reported(q, j, z) /\ q[j].sample.value > q[i].sample.value
  <2>1. PICK j \in DOMAIN q : j < i /\ Reported(q, j, z) /\ q[j].sample.value > q[i].sample.value
    BY <1>10
  <2>2. CASE j = 1
    <3>1. q[j] = Head(q) /\ new.high = q[j].sample.value
      BY <1>1, <2>1, <2>2 DEF Reported
    <3> QED
      BY <1>4, <1>6, <1>7, <2>1, <3>1 DEF Kills
  <2>3. CASE j # 1
    <3>1. j - 1 \in DOMAIN t /\ t[j - 1] = q[j] /\ j - 1 < i - 1
      BY <1>1, <2>1, <2>3
    <3> QED
      BY <1>6, <1>7, <2>1, <3>1 DEF Kills, Reported
  <2> QED
    BY <2>2, <2>3
<1>11. Kills(new, z, t, i - 1)
  BY <1>8, <1>9, <1>10 DEF Kills
<1> QED
  BY <1>5, <1>6, <1>11

-------------------------------------------------------------------------------
(* A row and the sensor.                                                       *)

(* One report after another: the sensor counts on, or another epoch begins.    *)
Succeeds(t, s) ==
    \/ t.epoch = s.epoch /\ t.device = s.device /\ t.value >= s.value
    \/ t.epoch > s.epoch /\ (t.device # s.device \/ t.value < s.value)

LEMMA FollowedAppended ==
    ASSUME NEW q \in Seq(Operations), NEW op \in Operations, NEW row, NEW z, NEW s,
           Followed(row, z, q, s)
    PROVE  Followed(row, z, Append(q, op), s)
<1> DEFINE a == Append(q, op)
<1>1. \A i \in DOMAIN q : i \in DOMAIN a /\ a[i] = q[i]
  BY Appended
<1>2. ASSUME row.fault = "none", row.epoch < s.epoch
      PROVE  \E i, j \in DOMAIN a : /\ Kills(row, z, a, i)
                                    /\ i <= j /\ Reported(a, j, z) /\ a[j].sample.epoch = s.epoch
  <2>1. PICK i \in DOMAIN q, j \in DOMAIN q :
           Kills(row, z, q, i) /\ i <= j /\ Reported(q, j, z) /\ q[j].sample.epoch = s.epoch
    BY <1>2 DEF Followed
  <2>2. Kills(row, z, a, i)
    BY <2>1, KillsAppended
  <2> QED
    BY <1>1, <2>1, <2>2 DEF Reported
<1>3. ASSUME row.fault = "none", row.epoch = s.epoch
      PROVE  /\ s.device = row.device
             /\ \/ row.high >= s.value
                \/ \E i \in DOMAIN a : Reported(a, i, z) /\ a[i].sample.value >= s.value
  BY <1>1, <1>3 DEF Followed, Reported
<1> HIDE DEF a
<1> QED
  BY <1>2, <1>3 DEF Followed, a

(* The report that a sensor makes is followed once it waits.                   *)
LEMMA FollowedReported ==
    ASSUME ReferenceConstants, NEW q \in Seq(Operations), NEW op \in Operations,
           op.op = "observe", NEW row \in Rows, NEW s \in Samples,
           row.epoch <= s.epoch, Succeeds(op.sample, s), Followed(row, op.zone, q, s)
    PROVE  Followed(row, op.zone, Append(q, op), op.sample)
<1> DEFINE a == Append(q, op)
           z == op.zone
           t == op.sample
           n == Len(q) + 1
<1>1. /\ \A i \in DOMAIN q : i \in DOMAIN a /\ a[i] = q[i] /\ i < n /\ i \in Int
      /\ n \in DOMAIN a /\ a[n] = op /\ n \in Int
  BY Appended
<1>2. t \in Samples
  BY ReportsAreTyped
<1>3. /\ t.value \in Int /\ s.value \in Int /\ row.high \in Int
      /\ t.epoch \in Int /\ s.epoch \in Int /\ row.epoch \in Int
  BY <1>2 DEF ReferenceConstants, Samples, Rows
<1>4. Reported(a, n, z) /\ a[n].sample = t
  BY <1>1 DEF Reported
<1>5. ASSUME row.fault = "none", row.epoch = t.epoch
      PROVE  /\ t.device = row.device
             /\ \E i \in DOMAIN a : Reported(a, i, z) /\ a[i].sample.value >= t.value
  <2>1. row.epoch = s.epoch /\ t.device = s.device
    BY <1>3, <1>5 DEF Succeeds
  <2>2. s.device = row.device
    BY <1>5, <2>1 DEF Followed
  <2>3. a[n].sample.value >= t.value
    BY <1>3, <1>4
  <2> QED
    BY <1>1, <1>4, <2>1, <2>2, <2>3
<1>6. ASSUME row.fault = "none", row.epoch < t.epoch
      PROVE  \E i, j \in DOMAIN a : /\ Kills(row, z, a, i)
                                    /\ i <= j /\ Reported(a, j, z) /\ a[j].sample.epoch = t.epoch
  <2>1. CASE row.epoch < s.epoch
    <3>1. PICK i \in DOMAIN q : Kills(row, z, q, i)
      BY <1>6, <2>1 DEF Followed
    <3>2. i \in DOMAIN a /\ Kills(row, z, a, i)
      BY <3>1, KillsAppended
    <3>3. i <= n
      BY <1>1, <3>1
    <3> QED
      BY <1>1, <1>4, <3>2, <3>3
  <2>2. CASE row.epoch = s.epoch
    <3>1. t.device # s.device \/ t.value < s.value
      BY <1>3, <1>6, <2>2 DEF Succeeds
    <3>2. /\ s.device = row.device
          /\ \/ row.high >= s.value
             \/ \E i \in DOMAIN q : Reported(q, i, z) /\ q[i].sample.value >= s.value
      BY <1>6, <2>2 DEF Followed
    <3>3. a[n].sample.epoch > row.epoch
      BY <1>3, <1>4, <1>6
    <3>4. CASE t.device # s.device
      <4>1. Kills(row, z, a, n)
        BY <1>4, <3>2, <3>3, <3>4 DEF Kills
      <4> QED
        BY <1>1, <1>4, <4>1
    <3>5. CASE t.value < s.value /\ row.high >= s.value
      <4>1. a[n].sample.value < row.high
        BY <1>3, <1>4, <3>5
      <4>2. Kills(row, z, a, n)
        BY <1>4, <3>3, <4>1 DEF Kills
      <4> QED
        BY <1>1, <1>4, <4>2
    <3>6. CASE /\ t.value < s.value
               /\ \E i \in DOMAIN q : Reported(q, i, z) /\ q[i].sample.value >= s.value
      <4>1. PICK i \in DOMAIN q : Reported(q, i, z) /\ q[i].sample.value >= s.value
        BY <3>6
      <4>2. q[i].sample \in Samples
        BY <4>1, Appended, ReportsAreTyped DEF Reported
      <4>3. q[i].sample.value > t.value
        BY <1>3, <3>6, <4>1, <4>2 DEF Samples, ReferenceConstants
      <4>4. i \in DOMAIN a /\ i < n /\ Reported(a, i, z) /\ a[i].sample.value > a[n].sample.value
        BY <1>1, <1>4, <4>1, <4>3 DEF Reported
      <4>5. Kills(row, z, a, n)
        BY <1>4, <3>3, <4>4 DEF Kills
      <4> QED
        BY <1>1, <1>4, <4>5
    <3> QED
      BY <3>1, <3>2, <3>4, <3>5, <3>6
  <2> QED
    BY <1>3, <2>1, <2>2
<1> HIDE DEF a, z, t, n
<1> QED
  BY <1>5, <1>6 DEF Followed, a, z, t

(* When an operation has run, what waited behind it still does; a report has   *)
(* been taken up by the row.                                                  *)
LEMMA FollowedAdvanced ==
    ASSUME ReferenceConstants, NEW q \in Seq(Operations), q # <<>>,
           NEW z \in Zones, NEW row \in Rows, NEW new \in Rows, NEW s \in Samples,
           IF Head(q).op = "observe" /\ Head(q).zone = z
           THEN new \in Track(row, Head(q).sample)
           ELSE new = row,
           Followed(row, z, q, s)
    PROVE  Followed(new, z, Tail(q), s)
<1> DEFINE t == Tail(q)
<1>1. /\ DOMAIN q = 1..Len(q) /\ Len(q) \in Nat /\ DOMAIN t = 1..(Len(q) - 1)
      /\ \A k \in DOMAIN t : t[k] = q[k + 1]
      /\ Head(q) = q[1] /\ Head(q) \in Operations
      /\ \A k \in DOMAIN q : q[k] \in Operations
  BY Advanced
<1>2. SUFFICES ASSUME new.fault = "none"
               PROVE  /\ new.epoch < s.epoch =>
                            \E i, j \in DOMAIN t :
                               /\ Kills(new, z, t, i) /\ i <= j
                               /\ Reported(t, j, z) /\ t[j].sample.epoch = s.epoch
                      /\ new.epoch = s.epoch =>
                            /\ s.device = new.device
                            /\ \/ new.high >= s.value
                               \/ \E i \in DOMAIN t : /\ Reported(t, i, z)
                                                      /\ t[i].sample.value >= s.value
  BY DEF Followed
<1>3. Head(q).op = "observe" => Head(q).sample \in Samples
  BY <1>1, ReportsAreTyped
<1>4. row.high \in Int /\ s.value \in Int /\ new.high \in Int
  BY DEF Rows, Samples, ReferenceConstants
<1>5. /\ row.fault = "none"
      /\ new.epoch = row.epoch /\ new.device = row.device /\ new.high >= row.high
      /\ Head(q).op = "observe" /\ Head(q).zone = z =>
            /\ Head(q).sample.device = row.device
            /\ Head(q).sample.value >= row.high /\ new.high = Head(q).sample.value
  <2>1. CASE Head(q).op = "observe" /\ Head(q).zone = z
    BY <1>2, <1>3, <2>1, TrackOne
  <2>2. CASE ~(Head(q).op = "observe" /\ Head(q).zone = z)
    BY <1>2, <1>4, <2>2
  <2> QED
    BY <2>1, <2>2
<1>6. ASSUME new.epoch < s.epoch
      PROVE  \E i, j \in DOMAIN t : /\ Kills(new, z, t, i) /\ i <= j
                                    /\ Reported(t, j, z) /\ t[j].sample.epoch = s.epoch
  <2>1. PICK i \in DOMAIN q, j \in DOMAIN q :
           Kills(row, z, q, i) /\ i <= j /\ Reported(q, j, z) /\ q[j].sample.epoch = s.epoch
    BY <1>5, <1>6 DEF Followed
  <2>2. i # 1 /\ i - 1 \in DOMAIN t /\ Kills(new, z, t, i - 1)
    BY <1>5, <2>1, KillsAdvanced
  <2>3. j - 1 \in DOMAIN t /\ i - 1 <= j - 1 /\ t[j - 1] = q[j]
    BY <1>1, <2>1, <2>2
  <2> QED
    BY <2>1, <2>2, <2>3 DEF Reported
<1>7. ASSUME new.epoch = s.epoch
      PROVE  /\ s.device = new.device
             /\ \/ new.high >= s.value
                \/ \E i \in DOMAIN t : Reported(t, i, z) /\ t[i].sample.value >= s.value
  <2>1. /\ s.device = row.device
        /\ \/ row.high >= s.value
           \/ \E i \in DOMAIN q : Reported(q, i, z) /\ q[i].sample.value >= s.value
    BY <1>5, <1>7 DEF Followed
  <2>2. CASE row.high >= s.value
    BY <1>4, <1>5, <2>1, <2>2
  <2>3. CASE \E i \in DOMAIN q : Reported(q, i, z) /\ q[i].sample.value >= s.value
    <3>1. PICK i \in DOMAIN q : Reported(q, i, z) /\ q[i].sample.value >= s.value
      BY <2>3
    <3>2. CASE i = 1
      BY <1>1, <1>5, <2>1, <3>1, <3>2 DEF Reported
    <3>3. CASE i # 1
      <4>1. i - 1 \in DOMAIN t /\ t[i - 1] = q[i]
        BY <1>1, <3>1, <3>3
      <4> QED
        BY <1>5, <2>1, <3>1, <4>1 DEF Reported
    <3> QED
      BY <3>2, <3>3
  <2> QED
    BY <2>1, <2>2, <2>3
<1> QED
  BY <1>6, <1>7

(* A report still marks a row whose highest value has been raised.             *)
LEMMA KillsRaised ==
    ASSUME ReferenceConstants, NEW q \in Seq(Operations), NEW z, NEW i \in DOMAIN q,
           NEW row \in Rows, NEW new \in Rows, Kills(row, z, q, i),
           new.epoch = row.epoch, new.device = row.device, new.high >= row.high
    PROVE  Kills(new, z, q, i)
<1>1. q[i].sample \in Samples
  BY Appended, ReportsAreTyped DEF Kills, Reported
<1>2. q[i].sample.value \in Int /\ row.high \in Int /\ new.high \in Int
  BY <1>1 DEF Samples, Rows, ReferenceConstants
<1>3. q[i].sample.value < row.high => q[i].sample.value < new.high
  BY <1>2
<1> QED
  BY <1>3 DEF Kills

(* A row that was tracked with what the sensor shows knows its highest value.  *)
LEMMA FollowedRead ==
    ASSUME ReferenceConstants, NEW q \in Seq(Operations), NEW z \in Zones,
           NEW row \in Rows, NEW s \in Samples, NEW new \in Track(row, s),
           Followed(row, z, q, s)
    PROVE  Followed(new, z, q, s)
<1>1. SUFFICES ASSUME new.fault = "none" PROVE Followed(new, z, q, s)
  BY DEF Followed
<1>2. /\ new \in Rows /\ row.fault = "none" /\ new.epoch = row.epoch /\ new.device = row.device
      /\ new.high >= row.high /\ s.device = row.device /\ new.high = s.value
  BY <1>1, TrackOne
<1>3. row.high \in Int /\ s.value \in Int /\ new.high \in Int
  BY <1>2 DEF Rows, Samples, ReferenceConstants
<1>4. ASSUME NEW i \in DOMAIN q, Kills(row, z, q, i) PROVE Kills(new, z, q, i)
  BY <1>2, <1>4, KillsRaised
<1>5. ASSUME new.epoch < s.epoch
      PROVE  \E i, j \in DOMAIN q : /\ Kills(new, z, q, i)
                                    /\ i <= j /\ Reported(q, j, z) /\ q[j].sample.epoch = s.epoch
  <2>1. PICK i \in DOMAIN q, j \in DOMAIN q :
           Kills(row, z, q, i) /\ i <= j /\ Reported(q, j, z) /\ q[j].sample.epoch = s.epoch
    BY <1>2, <1>5 DEF Followed
  <2> QED
    BY <1>4, <2>1
<1> QED
  BY <1>2, <1>3, <1>5 DEF Followed

-------------------------------------------------------------------------------
(* The invariant for a longer queue, and for what the sensors show next.       *)

LEMMA BindingsAreTyped ==
    ASSUME ReferenceConstants, Shape
    PROVE  \A b \in ({data, disk, target} \ {NoBinding}) \cup {t.binding : t \in Changes} :
               b \in Bindings /\ b.ref < nextRef /\ b.ref \in Int
                 /\ \A z \in Zones : b.rows[z] \in Rows
<1>1. \A b \in ({data, disk, target} \ {NoBinding}) \cup {t.binding : t \in Changes} :
         b \in Bindings /\ b.ref < nextRef
  BY DEF Shape, TypeOK, Changes
<1> QED
  BY <1>1 DEF Bindings, ReferenceConstants

(* The meter counts what the sensor counts, in one epoch.                      *)
Senses(s, m, t, n) ==
    \A z \in Zones :
        /\ t[z].epoch >= s[z].epoch
        /\ t[z].epoch = s[z].epoch => n[z] = m[z] + t[z].value - s[z].value

Meters == [Zones -> 0..MaxMeter]

LEMMA FittingSensed ==
    ASSUME ReferenceConstants, Shape,
           NEW s \in [Zones -> Samples], NEW t \in [Zones -> Samples],
           NEW m \in Meters, NEW n \in Meters,
           Fitting(s, m), Senses(s, m, t, n)
    PROVE  Fitting(t, n)
<1>1. SUFFICES ASSUME NEW b \in ({data, disk, target} \ {NoBinding})
                                    \cup {u.binding : u \in Changes},
                      NEW z \in Zones
               PROVE  Fits(b.rows[z], t[z], n[z])
  BY Zenon DEF Fitting
<1>2. Fits(b.rows[z], s[z], m[z])
  BY Zenon DEF Fitting
<1>3. b.rows[z] \in Rows
  BY <1>1, BindingsAreTyped
<1>4. s[z] \in Samples /\ t[z] \in Samples /\ m[z] \in Nat /\ n[z] \in Nat
  BY DEF Meters, ReferenceConstants
<1>5. /\ t[z].epoch >= s[z].epoch
      /\ t[z].epoch = s[z].epoch => n[z] = m[z] + t[z].value - s[z].value
  BY DEF Senses
<1>6. /\ s[z].epoch \in Int /\ t[z].epoch \in Int /\ s[z].value \in Int /\ t[z].value \in Int
      /\ b.rows[z].epoch \in Int /\ b.rows[z].meter \in Int /\ b.rows[z].source \in Int
  BY <1>3, <1>4 DEF Rows, Samples, ReferenceConstants
<1> HIDE <1>1
<1>7. b.rows[z].epoch <= t[z].epoch
  BY <1>2, <1>5, <1>6 DEF Fits
<1>8. ASSUME b.rows[z].epoch = t[z].epoch
      PROVE  n[z] = b.rows[z].meter + t[z].value - b.rows[z].source
  <2>1. s[z].epoch = t[z].epoch
    BY <1>2, <1>5, <1>6, <1>8 DEF Fits
  <2>2. m[z] = b.rows[z].meter + s[z].value - b.rows[z].source
    BY <1>2, <1>8, <2>1 DEF Fits
  <2> QED
    BY <1>4, <1>5, <1>6, <2>1, <2>2
<1> QED
  BY <1>7, <1>8 DEF Fits

(* What a sensor reports, when it does.                                        *)
Sensed(op, s, t) ==
    IF op.op = "observe"
    THEN /\ t = [s EXCEPT ![op.zone] = op.sample]
         /\ Succeeds(op.sample, s[op.zone])
    ELSE t = s

LEMMA FollowsAppended ==
    ASSUME ReferenceConstants, NEW q \in Seq(Operations), NEW op \in Operations,
           NEW s \in [Zones -> Samples], NEW t \in [Zones -> Samples], Sensed(op, s, t),
           NEW b \in Bindings, \A z \in Zones : b.rows[z].epoch <= s[z].epoch,
           Follows(b, q, s)
    PROVE  Follows(b, Append(q, op), t)
<1>1. SUFFICES ASSUME b.ref >= doubt, NEW z \in Zones
               PROVE  Followed(b.rows[z], z, Append(q, op), t[z])
  BY DEF Follows
<1>2. Followed(b.rows[z], z, q, s[z])
  BY <1>1 DEF Follows
<1>3. b.rows[z] \in Rows /\ s[z] \in Samples
  BY DEF Bindings
<1>4. CASE op.op = "observe" /\ op.zone = z
  <2>1. t[z] = op.sample /\ Succeeds(op.sample, s[z])
    BY <1>4 DEF Sensed
  <2> QED
    BY <1>2, <1>3, <1>4, <2>1, FollowedReported
<1>5. CASE ~(op.op = "observe" /\ op.zone = z)
  <2>1. t[z] = s[z]
    BY <1>5 DEF Sensed
  <2> QED
    BY <1>2, <2>1, FollowedAppended
<1> QED
  BY <1>4, <1>5

LEMMA HeardAppended ==
    ASSUME ReferenceConstants, Shape, NEW q \in Seq(Operations), NEW op \in Operations,
           NEW s \in [Zones -> Samples], NEW t \in [Zones -> Samples], NEW m,
           Sensed(op, s, t), Fitting(s, m), Closing(q), Heard(q, s),
           op.op = "observe" => listening /\ manager # "closed"
    PROVE  Heard(Append(q, op), t)
<1>1. ASSUME NEW b \in ({data, disk, target} \ {NoBinding}) \cup {u.binding : u \in Changes},
             Follows(b, q, s)
      PROVE  Follows(b, Append(q, op), t)
  <2>1. b \in Bindings
    BY <1>1, BindingsAreTyped
  <2>2. \A z \in Zones : Fits(b.rows[z], s[z], m[z])
    BY <1>1, Zenon DEF Fitting
  <2>3. \A z \in Zones : b.rows[z].epoch <= s[z].epoch
    BY <2>2 DEF Fits
  <2> QED
    BY <1>1, <2>1, <2>3, FollowsAppended
<1>2. CASE manager = "open"
  <2>1. target # NoBinding => Follows(target, Append(q, op), t)
    BY <1>1, <1>2 DEF Heard
  <2>2. data # NoBinding /\ (target = NoBinding \/ target.ref # data.ref) =>
            Follows(data, Append(q, op), t)
    BY <1>1, <1>2 DEF Heard
  <2>3. \A u \in Changes : Follows(u.binding, Append(q, op), t)
    BY <1>1, <1>2 DEF Heard
  <2> QED
    BY <1>2, <2>1, <2>2, <2>3, Zenon DEF Heard
<1>3. CASE manager # "open"
  <2>1. CASE op.op = "observe"
    <3>1. doubt = nextRef
      BY <1>3, <2>1 DEF Closing, Shape, TypeOK
    <3>2. disk # NoBinding => disk.ref < nextRef /\ disk.ref \in Int
      BY BindingsAreTyped
    <3>3. disk # NoBinding => Follows(disk, <<>>, t)
      BY <3>1, <3>2 DEF Follows, Shape, TypeOK, ReferenceConstants
    <3> QED
      BY <1>3, <3>3, Zenon DEF Heard
  <2>2. CASE op.op # "observe"
    <3>1. t = s
      BY <2>2 DEF Sensed
    <3> QED
      BY <1>3, <3>1, Zenon DEF Heard
  <2> QED
    BY <2>1, <2>2
<1> QED
  BY <1>2, <1>3

LEMMA OffersAreTyped ==
    ASSUME ReferenceConstants, Shape, NEW q \in Seq(Operations)
    PROVE  /\ Offers(q) \subseteq Tokens
           /\ \A p \in Offers(q) : p.base[1] \in Int /\ p.base[1] \in Nat
<1>1. tokens \subseteq Tokens /\ sending \in Tokens \cup {NoToken} /\ holder \in Writes \cup {NoOp}
  BY DEF Shape, TypeOK
<1>2. ASSUME NEW i \in DOMAIN q, Asked(q, i) PROVE q[i].token \in Tokens
  <2>1. q[i] \in Operations
    BY Appended
  <2> QED
    BY <1>2, <2>1 DEF Asked, Operations, Reports, Requests
<1>3. holder # NoOp => {holder.result} \ {NoToken} \subseteq Tokens
  BY <1>1 DEF Writes
<1>4. Offers(q) \subseteq Tokens
  BY <1>1, <1>2, <1>3 DEF Offers
<1> QED
  BY <1>4 DEF Tokens, ReferenceConstants

LEMMA OffersAppended ==
    ASSUME NEW q \in Seq(Operations), NEW op \in Operations,
           op.op \in {"check", "confirm"} => op.token \in tokens /\ op.token.kind = "proposal"
    PROVE  Offers(Append(q, op)) \subseteq Offers(q)
<1>1. ASSUME NEW i \in DOMAIN Append(q, op), Asked(Append(q, op), i)
      PROVE  Append(q, op)[i].token \in Offers(q)
  <2>1. CASE i \in DOMAIN q
    <3>1. Append(q, op)[i] = q[i]
      BY <2>1, Appended
    <3> QED
      BY <1>1, <2>1, <3>1 DEF Offers, Asked
  <2>2. CASE i \notin DOMAIN q
    <3>1. Append(q, op)[i] = op
      BY <2>2, Appended
    <3> QED
      BY <1>1, <3>1 DEF Offers, Asked
  <2> QED
    BY <2>1, <2>2
<1> QED
  BY <1>1 DEF Offers

LEMMA OfferedAppended ==
    ASSUME ReferenceConstants, NEW q \in Seq(Operations), NEW op \in Operations,
           NEW s \in [Zones -> Samples], NEW t \in [Zones -> Samples],
           \A z \in Zones : t[z].epoch >= s[z].epoch, Offers(q) \subseteq Tokens,
           op.op \in {"check", "confirm"} => op.token \in tokens /\ op.token.kind = "proposal",
           Offered(q, s)
    PROVE  Offered(Append(q, op), t)
<1>1. ASSUME NEW p \in Tokens, Refusable(InForce, p, q) PROVE Refusable(InForce, p, Append(q, op))
  <2>1. PICK z \in Zones, i \in DOMAIN q : Kills(InForce.rows[z], z, q, i) /\ Ahead(q, i, p)
    BY <1>1 DEF Refusable
  <2>2. i \in DOMAIN Append(q, op) /\ Kills(InForce.rows[z], z, Append(q, op), i)
    BY <2>1, KillsAppended
  <2>3. ASSUME NEW j \in DOMAIN Append(q, op), j < i
        PROVE  ~(Asked(Append(q, op), j) /\ Append(q, op)[j].token = p)
    <3>1. j \in DOMAIN q /\ Append(q, op)[j] = q[j]
      BY <2>3, Appended
    <3> QED
      BY <2>1, <2>3, <3>1 DEF Ahead, Asked
  <2> QED
    BY <2>2, <2>3 DEF Refusable, Ahead
<1>2. SUFFICES ASSUME manager = "open", NEW p \in Offers(q)
               PROVE  /\ \A z \in Zones : p.truth[z].epoch <= t[z].epoch
                      /\ Vouched(p) \/ Moot(InForce, p) \/ Refusable(InForce, p, Append(q, op))
  BY OffersAppended, Zenon DEF Offered
<1>3. /\ \A z \in Zones : p.truth[z].epoch <= s[z].epoch
      /\ Vouched(p) \/ Moot(InForce, p) \/ Refusable(InForce, p, q)
  BY <1>2, Zenon DEF Offered
<1>4. p \in Tokens
  OBVIOUS
<1>5. \A z \in Zones : p.truth[z].epoch \in Int /\ s[z].epoch \in Int /\ t[z].epoch \in Int
  BY <1>4 DEF Tokens, Samples, ReferenceConstants
<1> QED
  BY <1>1, <1>3, <1>4, <1>5

-------------------------------------------------------------------------------
(* The invariant for the queue that an operation leaves behind, unless it is a *)
(* report that will be tracked.                                               *)

LEMMA OffersAdvanced ==
    ASSUME NEW q \in Seq(Operations), q # <<>>
    PROVE  Offers(Tail(q)) \subseteq Offers(q)
<1>1. ASSUME NEW i \in DOMAIN Tail(q), Asked(Tail(q), i)
      PROVE  Tail(q)[i].token \in Offers(q)
  <2>1. i + 1 \in DOMAIN q /\ Tail(q)[i] = q[i + 1]
    BY Advanced
  <2> QED
    BY <1>1, <2>1 DEF Offers, Asked
<1> QED
  BY <1>1 DEF Offers

LEMMA ClosingAdvanced ==
    ASSUME NEW q \in Seq(Operations), q # <<>>, Closing(q)
    PROVE  Closing(Tail(q))
<1>1. \A i \in DOMAIN Tail(q) : i + 1 \in DOMAIN q /\ Tail(q)[i] = q[i + 1] /\ i \in Int
  BY Advanced
<1>2. \A i, j \in DOMAIN Tail(q) : i < j => i + 1 < j + 1
  BY <1>1
<1> QED
  BY <1>1, <1>2, Zenon DEF Closing

(* A request to validate does not get ahead of the report that will mark.      *)
LEMMA RefusableAdvanced ==
    ASSUME ReferenceConstants, NEW q \in Seq(Operations), q # <<>>,
           NEW p, NEW z \in Zones, NEW i \in DOMAIN q,
           NEW row \in Rows, NEW new \in Rows, Kills(row, z, q, i),
           Ahead(q, i, p),
           new.epoch = row.epoch, new.device = row.device, new.high >= row.high,
           Head(q).op = "observe" /\ Head(q).zone = z =>
               /\ Head(q).sample.device = row.device
               /\ Head(q).sample.value >= row.high /\ new.high = Head(q).sample.value
    PROVE  \E k \in DOMAIN Tail(q) : Kills(new, z, Tail(q), k) /\ Ahead(Tail(q), k, p)
<1>1. i # 1 /\ i - 1 \in DOMAIN Tail(q) /\ Kills(new, z, Tail(q), i - 1)
  BY KillsAdvanced
<1>2. ASSUME NEW j \in DOMAIN Tail(q), j < i - 1
      PROVE  ~(Asked(Tail(q), j) /\ Tail(q)[j].token = p)
  <2>1. j + 1 \in DOMAIN q /\ Tail(q)[j] = q[j + 1] /\ j + 1 < i
    BY <1>2, Advanced
  <2> QED
    BY <2>1 DEF Ahead, Asked
<1> QED
  BY <1>1, <1>2 DEF Ahead

LEMMA SoundAdvanced ==
    ASSUME ReferenceConstants, Shape, NEW q \in Seq(Operations), q # <<>>,
           NEW s \in [Zones -> Samples], NEW m, Offers(q) \subseteq Tokens,
           Head(q).op # "observe" \/ manager # "open",
           Sound(q, s, m)
    PROVE  Sound(Tail(q), s, m)
<1>1. Closing(Tail(q))
  BY ClosingAdvanced DEF Sound
<1>2. ASSUME manager = "open",
             NEW b \in ({data, disk, target} \ {NoBinding}) \cup {u.binding : u \in Changes},
             Follows(b, q, s)
      PROVE  Follows(b, Tail(q), s)
  <2>1. SUFFICES ASSUME b.ref >= doubt, NEW z \in Zones
                 PROVE  Followed(b.rows[z], z, Tail(q), s[z])
    BY DEF Follows
  <2>2. Followed(b.rows[z], z, q, s[z])
    BY <1>2, <2>1 DEF Follows
  <2>3. b.rows[z] \in Rows /\ s[z] \in Samples
    BY <1>2, BindingsAreTyped
  <2> QED
    BY <1>2, <2>2, <2>3, FollowedAdvanced
<1>3. Heard(Tail(q), s)
  <2>1. CASE manager = "open"
    <3>1. target # NoBinding => Follows(target, Tail(q), s)
      BY <1>2, <2>1 DEF Sound, Heard
    <3>2. data # NoBinding /\ (target = NoBinding \/ target.ref # data.ref) =>
              Follows(data, Tail(q), s)
      BY <1>2, <2>1 DEF Sound, Heard
    <3>3. \A u \in Changes : Follows(u.binding, Tail(q), s)
      BY <1>2, <2>1 DEF Sound, Heard
    <3> QED
      BY <2>1, <3>1, <3>2, <3>3, Zenon DEF Heard
  <2>2. CASE manager # "open"
    BY <2>2, Zenon DEF Sound, Heard
  <2> QED
    BY <2>1, <2>2
<1>4. Offered(Tail(q), s)
  <2>1. SUFFICES ASSUME manager = "open", NEW p \in Offers(Tail(q)), Refusable(InForce, p, q), ~Moot(InForce, p)
                 PROVE  Refusable(InForce, p, Tail(q))
    BY OffersAdvanced, Zenon DEF Sound, Offered
  <2>2. PICK z \in Zones, i \in DOMAIN q : Kills(InForce.rows[z], z, q, i) /\ Ahead(q, i, p)
    BY <2>1 DEF Refusable
  <2>3. InForce \in {data, disk, target} \ {NoBinding}
    BY <2>1 DEF InForce, Moot
  <2>4. PICK row \in Rows : row = InForce.rows[z]
    BY <2>3, BindingsAreTyped
  <2>5. row.high >= row.high
    BY <2>4 DEF Rows, ReferenceConstants
  <2>6. Kills(row, z, q, i)
    BY <2>2, <2>4
  <2>7. ~(Head(q).op = "observe")
    BY <2>1
  <2>8. \E k \in DOMAIN Tail(q) : Kills(row, z, Tail(q), k) /\ Ahead(Tail(q), k, p)
    BY <2>2, <2>5, <2>6, <2>7, RefusableAdvanced
  <2> QED
    BY <2>4, <2>8 DEF Refusable
<1> QED
  BY <1>1, <1>3, <1>4, Zenon DEF Sound

-------------------------------------------------------------------------------
(* What an operation does when it has the lock.                                *)

(* It is refused.                                                              *)
LEMMA RunRefused ==
    ASSUME ReferenceConstants, Shape, NEW r, NEW s, NEW m, Sound(r, s, m),
           queue' = r, source' = s, meter' = m,
           UNCHANGED <<manager, listening, data, disk, latched>>, Refused,
           doubt' = IF manager # "open" THEN doubt' ELSE doubt,
           doubt' \in {doubt, nextRef}
    PROVE  Sound(queue, source, meter)'
<1> USE DEF Refused
<1>1. InForce' = InForce /\ Changes' = Changes
  BY Zenon DEF InForce, Changes
<1>2. Closing(queue)'
  BY DEF Sound, Closing
<1>3. Writing' /\ Reviewed' /\ Kept'
  <2>1. Writing /\ Reviewed /\ Kept
    BY DEF Sound
  <2> QED
    BY <1>1, <2>1 DEF Writing, Reviewed, Kept, Faultless
<1>4. Fitting(source, meter)'
  BY <1>1 DEF Sound, Fitting
<1>5. CASE doubt' = doubt
  <2>1. Heard(queue, source)'
    <3>1. Heard(r, s)
      BY DEF Sound
    <3> QED
      BY <1>1, <1>5, <3>1 DEF Heard, Follows
  <2>2. Offered(queue, source)'
    <3>1. Offered(r, s)
      BY DEF Sound
    <3>2. Offers(queue)' = Offers(r)
      BY Zenon DEF Offers, Asked
    <3> QED
      BY <1>1, <1>5, <3>1, <3>2 DEF Offered, Vouched, Moot, Refusable, Faultless
  <2> QED
    BY <1>2, <1>3, <1>4, <2>1, <2>2 DEF Sound
<1>6. CASE doubt' # doubt
  <2>1. manager # "open" /\ doubt' = nextRef
    BY <1>6
  <2>2. disk # NoBinding => disk.ref < nextRef /\ disk.ref \in Int
    BY BindingsAreTyped
  <2>3. Heard(queue, source)'
    BY <2>1, <2>2 DEF Heard, Follows, Shape, TypeOK, ReferenceConstants
  <2>4. Offered(queue, source)'
    BY <2>1 DEF Offered
  <2> QED
    BY <1>2, <1>3, <1>4, <2>3, <2>4 DEF Sound
<1> QED
  BY <1>5, <1>6

(* close has the lock: nothing that was reported waits behind it.              *)
LEMMA RunClose ==
    ASSUME ReferenceConstants, Shape, NEW r \in Seq(Operations), NEW s, NEW m, Sound(r, s, m),
           queue' = r, source' = s, meter' = m,
           UNCHANGED <<data, disk, latched, holder, target, nextRef, sending, doubt>>,
           holder = NoOp, manager' = "closed", tokens' = {}, listening' => listening,
           \A i \in DOMAIN r : r[i].op # "observe"
    PROVE  Sound(queue, source, meter)'
<1>1. Changes' = {}
  BY DEF Changes
<1>2. target = NoBinding
  BY DEF Sound, Closing
<1>3. Closing(queue)'
  BY <1>2 DEF Sound, Closing
<1>4. Writing' /\ Reviewed' /\ Offered(queue, source)'
  BY DEF Writing, Reviewed, Offered
<1>5. Kept'
  BY DEF Sound, Kept
<1>6. Fitting(source, meter)'
  BY <1>1 DEF Sound, Fitting
<1>7. Heard(queue, source)'
  <2>1. SUFFICES ASSUME disk # NoBinding, disk.ref >= doubt, NEW z \in Zones
                 PROVE  Followed(disk.rows[z], z, <<>>, s[z])
    BY DEF Heard, Follows
  <2>2. CASE manager # "open"
    BY <2>1, <2>2 DEF Sound, Heard, Follows
  <2>3. CASE manager = "open"
    <3>1. Followed(disk.rows[z], z, r, s[z])
      BY <1>2, <2>1, <2>3 DEF Sound, Closing, Heard, Follows
    <3>2. \A i \in DOMAIN r : ~Reported(r, i, z)
      BY DEF Reported
    <3> QED
      BY <3>1, <3>2 DEF Followed, Kills
  <2> QED
    BY <2>2, <2>3
<1> QED
  BY <1>3, <1>4, <1>5, <1>6, <1>7 DEF Sound

(* An operation that runs while the manager works.                             *)
Running(r) ==
    /\ manager = "open" /\ holder = NoOp /\ queue' = r
    /\ UNCHANGED <<manager, listening, data, disk, latched, doubt>>

LEMMA ChangesAreNew ==
    ASSUME ReferenceConstants, Shape, nextRef <= MaxRefs
    PROVE  /\ Change \in Tokens /\ Change.kind = "change"
           /\ Change.binding = Captured /\ Captured \in Bindings /\ Captured.ref = nextRef
           /\ \A z \in Zones :
                 /\ Captured.rows[z].fault = "none" /\ Captured.rows[z].meter = meter[z]
                 /\ Captured.rows[z].source = source[z].value
                 /\ Captured.rows[z].high = source[z].value
                 /\ Captured.rows[z].device = source[z].device
                 /\ Captured.rows[z].epoch = source[z].epoch
<1>1. /\ source \in [Zones -> Samples] /\ meter \in [Zones -> 0..MaxMeter]
      /\ nextRef \in 1..(MaxRefs + 1) /\ data \in Bindings \cup {NoBinding}
  BY DEF Shape, TypeOK
<1>2. nextRef \in 1..MaxRefs
  BY <1>1 DEF ReferenceConstants
<1> DEFINE row(z) == [meter |-> meter[z], source |-> source[z].value, high |-> source[z].value,
                      device |-> source[z].device, fault |-> "none", epoch |-> source[z].epoch]
<1>3. \A z \in Zones : row(z) \in Rows
  BY <1>1 DEF Rows, Samples, Faults
<1>4. Captured = [ref |-> nextRef, rows |-> [z \in Zones |-> row(z)]]
  BY Zenon DEF Captured
<1> HIDE DEF row
<1>5. Captured \in Bindings /\ Captured.ref = nextRef /\ \A z \in Zones : Captured.rows[z] = row(z)
  BY <1>2, <1>3, <1>4 DEF Bindings
<1>6. Revision(data) \in (0..MaxRefs) \X SUBSET Zones
  <2>1. CASE data = NoBinding
    BY <2>1 DEF Revision, ReferenceConstants
  <2>2. CASE data # NoBinding
    <3>1. data.ref \in 0..MaxRefs
      BY <1>1, <2>2 DEF Bindings, ReferenceConstants
    <3> QED
      BY <2>2, <3>1 DEF Revision
  <2> QED
    BY <2>1, <2>2
<1>7. Truth \in [Zones -> [meter : 0..MaxMeter, epoch : 0..MaxEpoch]]
  BY <1>1 DEF Truth, Samples
<1>8. Change \in Tokens /\ Change.kind = "change" /\ Change.binding = Captured
  <2>1. [z \in Zones |-> 0] \in [Zones -> Int]
    OBVIOUS
  <2> QED
    BY <1>5, <1>6, <1>7, <2>1 DEF Change, Tokens
<1>9. ASSUME NEW z \in Zones
      PROVE  /\ Captured.rows[z].fault = "none" /\ Captured.rows[z].meter = meter[z]
             /\ Captured.rows[z].source = source[z].value
             /\ Captured.rows[z].high = source[z].value
             /\ Captured.rows[z].device = source[z].device
             /\ Captured.rows[z].epoch = source[z].epoch
  <2>1. Captured.rows[z] = row(z)
    BY <1>5
  <2> QED
    BY <2>1 DEF row
<1> QED
  BY <1>5, <1>8, <1>9

(* A pair that has just been captured follows its sensors.                     *)
LEMMA RunPreview ==
    ASSUME ReferenceConstants, Shape, NEW r \in Seq(Operations),
           Len(r) <= MaxQueue, Len(r) <= MaxQueue + 1,
           Sound(r, source, meter), Running(r), Preview, UNCHANGED worldVars
    PROVE  IInv'
<1> USE DEF Running, worldVars
<1>1. /\ nextRef <= MaxRefs /\ tokens' = tokens \cup {Change} /\ nextRef' = nextRef + 1
      /\ UNCHANGED <<holder, target, sending>> /\ holder = NoOp /\ target = NoBinding
  BY DEF Preview, Sound, Closing
<1>2. PICK c : c = Change
  OBVIOUS
<1>3. PICK new : new = Captured
  OBVIOUS
<1>4. /\ c \in Tokens /\ c.kind = "change" /\ c.binding = new /\ new \in Bindings
      /\ new.ref = nextRef
      /\ \A z \in Zones :
                 /\ new.rows[z].fault = "none" /\ new.rows[z].meter = meter[z]
                 /\ new.rows[z].source = source[z].value
                 /\ new.rows[z].high = source[z].value
                 /\ new.rows[z].device = source[z].device
                 /\ new.rows[z].epoch = source[z].epoch
  BY <1>1, <1>2, <1>3, ChangesAreNew
<1>5. Changes' = Changes \cup {c} /\ InForce' = InForce
  BY <1>1, <1>2, <1>4 DEF Changes, InForce
<1>6. nextRef \in Int /\ nextRef \in 1..(MaxRefs + 1) /\ nextRef' \in 1..(MaxRefs + 1)
      /\ doubt \in 1..nextRef
  BY <1>1 DEF Shape, TypeOK, ReferenceConstants
<1>7. Shape'
  <2>1. /\ \A b \in {data, disk, target} \ {NoBinding} : b.ref < nextRef'
        /\ \A p \in latched : p[1] < nextRef'
    <3>1. \A b \in {data, disk, target} \ {NoBinding} : b.ref \in Int /\ b.ref < nextRef
      BY BindingsAreTyped
    <3>2. \A p \in latched : p[1] \in Int /\ p[1] < nextRef
      BY DEF Shape, TypeOK, ReferenceConstants
    <3> QED
      BY <1>1, <1>6, <3>1, <3>2
  <2>2. \A t \in Changes' : t.binding \in Bindings /\ t.binding.ref < nextRef'
    <3>1. \A t \in Changes : t.binding \in Bindings /\ t.binding.ref < nextRef
                                                    /\ t.binding.ref \in Int
      BY BindingsAreTyped DEF Changes
    <3> QED
      BY <1>1, <1>4, <1>5, <1>6, <3>1
  <2>3. TypeOK'
    <3>1. doubt' \in 1..nextRef'
      BY <1>1, <1>6
    <3>2. tokens' \subseteq Tokens
      BY <1>1, <1>2, <1>4 DEF Shape, TypeOK
    <3>3. \A t \in tokens' : t.kind = "change" => t.binding.ref < nextRef'
      BY <2>2 DEF Changes
    <3> QED
      BY <1>1, <1>6, <3>1, <3>2, <3>3 DEF Shape, TypeOK
  <2> QED
    BY <1>1, <2>1, <2>2, <2>3 DEF Shape
<1>8. Closing(queue)'
  BY <1>1 DEF Sound, Closing
<1>9. Writing'
  BY <1>1 DEF Writing
<1>10. Reviewed'
  <2>1. /\ data # NoBinding => data.ref < nextRef /\ data.ref \in Int
        /\ \A t \in Changes : t.binding.ref < nextRef /\ t.binding.ref \in Int
    BY BindingsAreTyped DEF Changes
  <2>2. \A z \in Zones : <<nextRef, z>> \notin latched
    BY <1>6 DEF Shape
  <2>3. Reviewed
    BY DEF Sound
  <2>4. \A t \in Changes' :
            /\ data # NoBinding => t.binding.ref # data.ref
            /\ \A z \in Zones : <<t.binding.ref, z>> \notin latched
    BY <1>4, <1>5, <1>6, <2>1, <2>2, <2>3 DEF Reviewed
  <2>5. \A t, u \in Changes' : u.binding.ref = t.binding.ref => u = t
    BY <1>4, <1>5, <1>6, <2>1, <2>3 DEF Reviewed
  <2> QED
    BY <2>4, <2>5 DEF Reviewed
<1>11. Kept'
  BY <1>1 DEF Sound, Kept
<1>12. Fitting(source, meter)'
  <2>1. \A z \in Zones : Fits(new.rows[z], source[z], meter[z])
    BY <1>4 DEF Fits, Shape, TypeOK, Samples, ReferenceConstants
  <2>2. Fitting(source, meter)
    BY DEF Sound
  <2> QED
    BY <1>1, <1>4, <1>5, <2>1, <2>2 DEF Fitting
<1>13. Heard(queue, source)'
  <2>1. Follows(new, r, source)
    <3>1. \A z \in Zones : source[z].value \in Int /\ source[z].epoch \in Int
      BY DEF Shape, TypeOK, Samples, ReferenceConstants
    <3> QED
      BY <1>4, <3>1 DEF Follows, Followed
  <2>2. Heard(r, source)
    BY DEF Sound
  <2> QED
    BY <1>1, <1>4, <1>5, <2>1, <2>2 DEF Heard, Follows
<1>14. Offered(queue, source)'
  <2>1. Offers(queue)' = Offers(r)
    <3>1. {t \in tokens' : t.kind = "proposal"} = {t \in tokens : t.kind = "proposal"}
      BY <1>1, <1>2, <1>4
    <3> QED
      BY <1>1, <3>1 DEF Offers, Asked
  <2>2. Offered(r, source)
    BY DEF Sound
  <2>3. \A p \in Offers(r) : p.base[1] < nextRef
    BY <2>2 DEF Offered
  <2>4. \A p \in Offers(r) : p.base[1] < nextRef' /\ p.base[1] # new.ref
    <3>1. \A p \in Offers(r) : p.base[1] \in Int
      BY OffersAreTyped
    <3> QED
      BY <1>1, <1>4, <1>6, <2>3, <3>1
  <2>5. \A p \in Offers(r) : \A t \in Changes' : t.binding.ref # p.base[1]
    BY <1>4, <1>5, <2>2, <2>4 DEF Offered
  <2> QED
    BY <1>1, <1>5, <2>1, <2>2, <2>4, <2>5 DEF Offered, Vouched, Moot, Refusable, Faultless
<1> QED
  BY <1>1, <1>7, <1>8, <1>9, <1>10, <1>11, <1>12, <1>13, <1>14 DEF IInv, Sound

(* A pair that is saved has been tracked to this moment.                       *)
LEMMA RunSave ==
    ASSUME ReferenceConstants, Shape, NEW r \in Seq(Operations),
           Len(r) <= MaxQueue, Len(r) <= MaxQueue + 1,
           Sound(r, source, meter), Running(r), NEW op \in Operations, Save(op),
           UNCHANGED worldVars
    PROVE  IInv'
<1> USE DEF Running, worldVars
<1>1. PICK t : t = op.token
  OBVIOUS
<1>2. t \in Changes /\ t.kind = "change"
  BY <1>1 DEF Save, Live, Changes
<1>3. PICK new \in TrackAll(t.binding, Zones, source) :
          /\ Faultless(new)
          /\ holder' = [op |-> "save", result |-> t] /\ target' = new
  BY <1>1 DEF Save, Persist
<1>4. UNCHANGED <<tokens, sending, nextRef>> /\ Changes' = Changes /\ target = NoBinding
  BY DEF Save, Changes, Sound, Closing
<1>5. PICK old \in Bindings : old = t.binding
  BY <1>2 DEF Shape
<1>6. old.ref < nextRef
  BY <1>2, <1>5 DEF Shape, TypeOK, Changes
<1>7. source \in [Zones -> Samples]
  BY DEF Shape, TypeOK
<1>8. /\ Continues(new, old)
      /\ \A z \in Zones : new.rows[z] \in Track(old.rows[z], source[z])
  BY <1>3, <1>5, <1>7, TrackMany
<1>9. new \in Bindings /\ new # NoBinding /\ new.ref = old.ref
  BY <1>8 DEF Continues, ReferenceConstants
<1>10. PICK h : h = [op |-> "save", result |-> t]
  OBVIOUS
<1>11. t \in Tokens
  BY <1>2 DEF Changes, Shape, TypeOK
<1>12. h \in Writes /\ h # NoOp /\ h.op = "save" /\ h.result = t /\ holder' = h
  BY <1>3, <1>10, <1>11 DEF Writes, ReferenceConstants
<1>13. InForce' = data /\ InForce = data
  <2>1. InForce' = data
    BY <1>12 DEF InForce
  <2> QED
    BY <1>4, <2>1 DEF InForce
<1>14. Shape'
  <2>1. TypeOK'
    BY <1>3, <1>4, <1>9, <1>11, <1>12 DEF Shape, TypeOK
  <2> QED
    BY <1>3, <1>4, <1>6, <1>9, <1>12, <2>1 DEF Shape
<1>15. Closing(queue)'
  BY <1>12 DEF Sound, Closing
<1>16. Reviewed
  BY DEF Sound
<1>17. /\ data # NoBinding => new.ref # data.ref
       /\ \A z \in Zones : <<new.ref, z>> \notin latched
       /\ \A u \in Changes : u.binding.ref = new.ref => u = t
  BY <1>2, <1>5, <1>9, <1>16 DEF Reviewed
<1>18. Faultless(new)
  BY <1>3
<1>19. Writing'
  BY <1>2, <1>3, <1>4, <1>5, <1>9, <1>11, <1>12, <1>17, <1>18 DEF Writing, Faultless
<1>20. Reviewed'
  BY <1>4, <1>16 DEF Reviewed
<1>21. Kept'
  BY <1>3, <1>17 DEF Sound, Kept
<1>22. Fitting(source, meter)'
  <2>1. Fitting(source, meter)
    BY DEF Sound
  <2>2. \A z \in Zones : Fits(old.rows[z], source[z], meter[z])
    BY <1>2, <1>5, <2>1 DEF Fitting
  <2>3. \A z \in Zones : Fits(new.rows[z], source[z], meter[z])
    BY <1>8, <2>2 DEF Fits, Continues
  <2> QED
    BY <1>3, <1>4, <2>1, <2>3 DEF Fitting
<1>23. Heard(queue, source)'
  <2>1. Heard(r, source)
    BY DEF Sound
  <2>2. Follows(old, r, source)
    BY <1>2, <1>5, <2>1 DEF Heard
  <2>3. Follows(new, r, source)
    <3>1. SUFFICES ASSUME new.ref >= doubt, NEW z \in Zones
                   PROVE  Followed(new.rows[z], z, r, source[z])
      BY DEF Follows
    <3>2. Followed(old.rows[z], z, r, source[z])
      BY <1>9, <2>2, <3>1 DEF Follows
    <3>3. old.rows[z] \in Rows /\ source[z] \in Samples
      BY <1>7 DEF Bindings
    <3> QED
      BY <1>8, <3>2, <3>3, FollowedRead
  <2> QED
    BY <1>3, <1>4, <2>1, <2>3 DEF Heard, Follows
<1>24. Offered(queue, source)'
  <2>1. Offered(r, source)
    BY DEF Sound
  <2>2. Offers(queue)' = Offers(r)
    BY <1>4, <1>12 DEF Offers, Asked
  <2>3. \A p \in Offers(r) : new.ref # p.base[1]
    BY <1>2, <1>5, <1>9, <2>1 DEF Offered
  <2> QED
    BY <1>3, <1>4, <1>12, <1>13, <2>1, <2>2, <2>3
       DEF Offered, Vouched, Moot, Refusable, Faultless
<1> QED
  BY <1>14, <1>15, <1>19, <1>20, <1>21, <1>22, <1>23, <1>24 DEF IInv, Sound

(* The removal of the reference begins.                                        *)
LEMMA RunRemove ==
    ASSUME ReferenceConstants, Shape, NEW r \in Seq(Operations),
           Len(r) <= MaxQueue, Len(r) <= MaxQueue + 1,
           Sound(r, source, meter), Running(r), Remove, UNCHANGED worldVars
    PROVE  IInv'
<1> USE DEF Running, worldVars
<1>1. PICK h : h = [op |-> "remove", result |-> NoToken]
  OBVIOUS
<1>2. h \in Writes /\ h # NoOp /\ h.op = "remove" /\ h.result = NoToken
  BY <1>1 DEF Writes, ReferenceConstants
<1>3. /\ holder' = h /\ target' = NoBinding /\ target = NoBinding
      /\ UNCHANGED <<tokens, sending, nextRef>> /\ Changes' = Changes
  BY <1>1 DEF Remove, Persist, Changes, Sound, Closing
<1>4. InForce' = InForce
  BY <1>3 DEF InForce
<1>5. Shape'
  BY <1>2, <1>3 DEF Shape, TypeOK
<1>6. Closing(queue)' /\ Kept' /\ Fitting(source, meter)'
  BY <1>2, <1>3 DEF Sound, Closing, Kept, Fitting
<1>7. Writing' /\ Reviewed'
  BY <1>2, <1>3 DEF Sound, Writing, Reviewed
<1>8. Heard(queue, source)'
  <2>1. Heard(r, source)
    BY DEF Sound
  <2> QED
    BY <1>3, <2>1 DEF Heard, Follows
<1>9. Offered(queue, source)'
  <2>1. Offered(r, source)
    BY DEF Sound
  <2>2. Offers(queue)' = Offers(r)
    BY <1>2, <1>3 DEF Offers, Asked
  <2> QED
    BY <1>2, <1>3, <1>4, <2>1, <2>2 DEF Offered, Vouched, Moot, Refusable, Faultless
<1> QED
  BY <1>5, <1>6, <1>7, <1>8, <1>9 DEF IInv, Sound

(* A proposal says what the meter shows, or a report that marks its reference  *)
(* waits.                                                                      *)
LEMMA ProposalsAreSound ==
    ASSUME ReferenceConstants, Shape, NEW r \in Seq(Operations), Sound(r, source, meter),
           manager = "open", data \in Bindings, data # NoBinding, target = NoBinding,
           NEW new \in TrackAll(data, Zones, source), Faultless(new)
    PROVE  /\ Proposal(new) \in Tokens /\ Proposal(new).kind = "proposal"
           /\ Proposal(new).base[1] = data.ref /\ Proposal(new).base[2] = {}
           /\ \A z \in Zones : Proposal(new).truth[z].epoch = source[z].epoch
           /\ \/ Truthful(Proposal(new)) \/ data.ref < doubt
              \/ \E z \in Zones, i \in DOMAIN r : Kills(new.rows[z], z, r, i)
<1>1. source \in [Zones -> Samples] /\ meter \in [Zones -> 0..MaxMeter]
  BY DEF Shape, TypeOK
<1>2. /\ Continues(new, data)
      /\ \A z \in Zones : new.rows[z] \in Track(data.rows[z], source[z])
  BY <1>1, TrackMany
<1>3. new \in Bindings /\ new.ref = data.ref /\ new # NoBinding
  BY <1>2 DEF Continues, ReferenceConstants
<1>4. PICK p : p = Proposal(new)
  OBVIOUS
<1>5. Truth \in [Zones -> [meter : 0..MaxMeter, epoch : 0..MaxEpoch]]
  BY <1>1 DEF Truth, Samples
<1>6. \A z \in Zones : /\ new.rows[z].meter \in Int /\ new.rows[z].source \in Int
                       /\ source[z].value \in Int /\ source[z].epoch \in Int
                       /\ new.rows[z].epoch \in Int /\ new.rows[z].high \in Int
  <2>1. \A z \in Zones : new.rows[z] \in Rows /\ source[z] \in Samples
    BY <1>1, <1>3 DEF Bindings
  <2> QED
    BY <2>1 DEF Rows, Samples, ReferenceConstants
<1>7. Revision(new) = <<new.ref, {}>>
  BY <1>3 DEF Revision, Faultless
<1>8. Revision(new) \in (0..MaxRefs) \X SUBSET Zones
  BY <1>3, <1>7 DEF Bindings, ReferenceConstants
<1>9. p = [kind |-> "proposal", base |-> Revision(new), binding |-> NoBinding,
           readings |-> [z \in Zones |-> new.rows[z].meter + source[z].value
                                                           - new.rows[z].source],
           truth |-> Truth]
  BY <1>4 DEF Proposal, Estimate
<1>10. [z \in Zones |-> new.rows[z].meter + source[z].value - new.rows[z].source]
           \in [Zones -> Int]
  BY <1>6
<1>11. /\ p \in Tokens /\ p.kind = "proposal"
       /\ p.base[1] = data.ref /\ p.base[2] = {}
  BY <1>3, <1>5, <1>7, <1>8, <1>9, <1>10 DEF Tokens
<1>12. \A z \in Zones :
          /\ p.truth[z].epoch = source[z].epoch /\ p.truth[z].meter = meter[z]
          /\ p.readings[z] = new.rows[z].meter + source[z].value - new.rows[z].source
  BY <1>9 DEF Truth
<1>13. Heard(r, source) /\ Fitting(source, meter)
  BY DEF Sound
<1>14. \A z \in Zones : Fits(data.rows[z], source[z], meter[z])
  BY <1>13, Zenon DEF Fitting
<1>15. \A z \in Zones : Fits(new.rows[z], source[z], meter[z])
  BY <1>2, <1>14 DEF Fits, Continues
<1>16. CASE \A z \in Zones : new.rows[z].epoch = source[z].epoch
  <2>1. Truthful(p)
    BY <1>12, <1>15, <1>16 DEF Truthful, Fits
  <2> QED
    BY <1>4, <1>11, <1>12, <2>1
<1>17. CASE data.ref >= doubt /\ \E z \in Zones : new.rows[z].epoch # source[z].epoch
  <2>1. PICK z \in Zones : new.rows[z].epoch # source[z].epoch
    BY <1>17
  <2>2. new.rows[z].epoch < source[z].epoch
    BY <1>6, <1>15, <2>1 DEF Fits
  <2>3. Followed(data.rows[z], z, r, source[z])
    BY <1>13, <1>17 DEF Heard, Follows
  <2>4. data.rows[z] \in Rows /\ source[z] \in Samples
    BY <1>1 DEF Bindings
  <2>5. Followed(new.rows[z], z, r, source[z])
    BY <1>2, <2>3, <2>4, FollowedRead
  <2>6. \E i \in DOMAIN r : Kills(new.rows[z], z, r, i)
    BY <2>2, <2>5 DEF Followed, Faultless
  <2> QED
    BY <1>4, <1>11, <1>12, <2>6
<1>18. doubt \in Int /\ data.ref \in Int
  BY DEF Shape, TypeOK, Bindings, ReferenceConstants
<1> QED
  BY <1>4, <1>11, <1>12, <1>16, <1>17, <1>18

(* What was moot or refusable is when the binding has been tracked.            *)
LEMMA RefusalsContinue ==
    ASSUME ReferenceConstants, NEW q \in Seq(Operations), NEW p,
           NEW old \in Bindings, NEW new, Continues(new, old),
           Moot(old, p) \/ Refusable(old, p, q)
    PROVE  Moot(new, p) \/ Refusable(new, p, q)
<1>1. new \in Bindings /\ new.ref = old.ref /\ new # NoBinding /\ old # NoBinding
  BY DEF Continues, ReferenceConstants
<1>2. CASE Moot(old, p)
  <2>1. CASE old.ref # p.base[1]
    BY <1>1, <2>1 DEF Moot
  <2>2. CASE ~Faultless(old)
    <3>1. ~Faultless(new)
      BY <2>2 DEF Faultless, Continues
    <3> QED
      BY <3>1 DEF Moot
  <2> QED
    BY <1>1, <1>2, <2>1, <2>2 DEF Moot
<1>3. CASE Refusable(old, p, q)
  <2>1. PICK z \in Zones, i \in DOMAIN q : Kills(old.rows[z], z, q, i) /\ Ahead(q, i, p)
    BY <1>3 DEF Refusable
  <2>2. old.rows[z] \in Rows /\ new.rows[z] \in Rows
    BY <1>1 DEF Bindings
  <2>3. Kills(new.rows[z], z, q, i)
    BY <2>1, <2>2, KillsRaised DEF Continues
  <2> QED
    BY <2>1, <2>3 DEF Refusable
<1> QED
  BY <1>2, <1>3

(* A view of the reference: its result is offered, or is once what tracking    *)
(* made of the binding is on disk.                                            *)
LEMMA RunView ==
    ASSUME ReferenceConstants, Shape, NEW r \in Seq(Operations),
           Len(r) <= MaxQueue, Len(r) <= MaxQueue + 1,
           Sound(r, source, meter), Running(r), UNCHANGED worldVars, nextRef' = nextRef,
           data # NoBinding, NEW name \in {"get", "check", "confirm"}, NEW token,
           View(name, token),
           \/ name = "get" /\ token = NoToken
           \/ /\ name # "get" /\ token \in Offers(r) /\ token # NoToken
              /\ token.kind = "proposal"
              /\ name = "confirm" => Vouched(token)
    PROVE  IInv'
<1> USE DEF Running, worldVars
<1> DEFINE Results(read, new) ==
               {NoToken} \cup (IF read = Zones /\ Faultless(new) THEN {Answer(token, new)} ELSE {})
           Effect(new, result) ==
               IF new = data
               THEN Deliver(name, result) /\ UNCHANGED <<holder, target>>
               ELSE Persist(name, result, new) /\ UNCHANGED <<tokens, sending>>
<1>a. PICK read \in SUBSET Zones :
         \E new \in TrackAll(data, read, source) :
            \E result \in Results(read, new) : Effect(new, result)
  BY Zenon DEF View
<1>b. PICK new \in TrackAll(data, read, source) :
          \E result \in Results(read, new) : Effect(new, result)
  BY <1>a
<1>1. PICK result \in Results(read, new) : Effect(new, result)
  BY <1>b
<1>2. data \in Bindings /\ source \in [Zones -> Samples] /\ target = NoBinding
  BY DEF Shape, TypeOK, Sound, Closing
<1>3. /\ Continues(new, data)
      /\ \A z \in read : new.rows[z] \in Track(data.rows[z], source[z])
      /\ \A z \in Zones \ read : new.rows[z] = data.rows[z]
  BY <1>2, TrackMany
<1>4. new \in Bindings /\ new.ref = data.ref /\ new # NoBinding
  BY <1>3 DEF Continues, ReferenceConstants
<1>5. Offered(r, source) /\ Reviewed /\ Heard(r, source) /\ Fitting(source, meter)
  BY DEF Sound
<1>6. InForce = data
  BY <1>2 DEF InForce
<1>7. 0 < data.ref /\ data.ref < nextRef /\ \A t \in Changes : t.binding.ref # data.ref
  BY <1>2, <1>5, BindingsAreTyped DEF Reviewed, Bindings, ReferenceConstants
<1>8. \A z \in Zones : data.rows[z].epoch <= source[z].epoch
  BY <1>2, <1>5 DEF Fitting, Fits
<1>9. ASSUME NEW p \in Offers(r) PROVE Vouched(p) \/ Moot(new, p) \/ Refusable(new, p, r)
  BY <1>2, <1>3, <1>5, <1>6, <1>9, RefusalsContinue DEF Offered
<1> DEFINE Fine(p) ==
              /\ 0 < p.base[1] /\ p.base[1] < nextRef /\ p.base[2] = {}
              /\ \A t \in Changes : t.binding.ref # p.base[1]
              /\ \A z \in Zones : p.truth[z].epoch <= source[z].epoch
              /\ data.ref = p.base[1] =>
                    \A z \in Zones : data.rows[z].epoch <= p.truth[z].epoch
              /\ Vouched(p) \/ Moot(new, p) \/ Refusable(new, p, r)
<1>10. ASSUME NEW p \in Offers(r) PROVE Fine(p)
  BY <1>2, <1>5, <1>9, <1>10 DEF Offered
<1>11. ASSUME result # NoToken
       PROVE  /\ result \in Tokens /\ result.kind = "proposal" /\ Fine(result)
              /\ name = "confirm" => Vouched(result)
  <2>1. read = Zones /\ Faultless(new) /\ result = Answer(token, new)
    BY <1>1, <1>11
  <2>2. CASE name # "get"
    <3>1. result = token
      BY <1>11, <2>1, <2>2 DEF Answer
    <3>2. token \in Tokens
      BY <2>2, OffersAreTyped
    <3> QED
      BY <1>10, <2>2, <3>1, <3>2
  <2>3. CASE name = "get"
    <3>1. result = Proposal(new)
      BY <2>1, <2>3 DEF Answer
    <3>2. /\ result \in Tokens /\ result.kind = "proposal"
          /\ result.base[1] = data.ref /\ result.base[2] = {}
          /\ \A z \in Zones : result.truth[z].epoch = source[z].epoch
          /\ \/ Truthful(result) \/ data.ref < doubt
             \/ \E z \in Zones, i \in DOMAIN r : Kills(new.rows[z], z, r, i)
      BY <1>2, <2>1, <3>1, ProposalsAreSound
    <3>3. \A z \in Zones : source[z].epoch \in Int
      BY <1>2 DEF Samples, ReferenceConstants
    <3>4. Vouched(result) \/ Moot(new, result) \/ Refusable(new, result, r)
      <4>1. CASE result \in Offers(r)
        BY <1>9, <4>1
      <4>2. CASE result \notin Offers(r)
        <5>1. \A j \in DOMAIN r : ~(Asked(r, j) /\ r[j].token = result)
          BY <4>2 DEF Offers
        <5> QED
          BY <3>2, <5>1 DEF Vouched, Refusable, Ahead
      <4> QED
        BY <4>1, <4>2
    <3>5. Fine(result)
      BY <1>7, <1>8, <3>2, <3>3, <3>4
    <3> QED
      BY <2>3, <3>2, <3>5
  <2> QED
    BY <2>2, <2>3
<1> HIDE DEF Fine
<1>12. PICK h : h = [op |-> name, result |-> result]
  OBVIOUS
<1>13. h \in Writes /\ h # NoOp /\ h.op = name /\ h.result = result /\ h.op # "save"
  BY <1>11, <1>12 DEF Writes, ReferenceConstants
<1>14. /\ \/ tokens' = tokens
          \/ name = "get" /\ tokens' = tokens \cup ({result} \ {NoToken})
       /\ sending' = sending \/ (name = "confirm" /\ sending' = result)
       /\ \/ holder' = NoOp /\ target' = NoBinding /\ new = data
          \/ holder' = h /\ target' = new
  BY <1>1, <1>2, <1>12 DEF Deliver, Persist
<1>15. Changes' = Changes
  BY <1>11, <1>14 DEF Changes
<1>16. InForce' = new
  BY <1>4, <1>13, <1>14 DEF InForce
<1>17. Shape'
  <2>1. tokens' \subseteq Tokens /\ sending' \in Tokens \cup {NoToken}
    BY <1>11, <1>14 DEF Shape, TypeOK
  <2>2. holder' \in Writes \cup {NoOp} /\ target' \in Bindings \cup {NoBinding}
    BY <1>4, <1>13, <1>14
  <2>3. \A t \in tokens' : t.kind = "change" => t.binding.ref < nextRef'
    BY <1>11, <1>14 DEF Shape, TypeOK
  <2>4. holder' # NoOp => holder'.result \in Tokens \cup {NoToken}
    BY <1>11, <1>13, <1>14
  <2>5. TypeOK'
    BY <2>1, <2>2, <2>3, <2>4 DEF Shape, TypeOK
  <2>6. \A b \in {data, disk, target'} \ {NoBinding} : b.ref < nextRef
    BY <1>4, <1>7, <1>14 DEF Shape
  <2> QED
    BY <1>15, <2>2, <2>5, <2>6 DEF Shape
<1>18. Closing(queue)'
  BY <1>13, <1>14 DEF Sound, Closing
<1>19. Writing'
  BY <1>3, <1>4, <1>11, <1>13, <1>14 DEF Writing, Continues
<1>20. Reviewed'
  BY <1>5, <1>15 DEF Reviewed
<1>21. Kept'
  <2>1. \A z \in Zones : <<new.ref, z>> \in latched => new.rows[z].fault # "none"
    BY <1>2, <1>3, <1>4 DEF Sound, Kept, Continues
  <2> QED
    BY <1>14, <2>1 DEF Sound, Kept
<1>22. Fitting(source, meter)'
  <2>1. \A z \in Zones : Fits(data.rows[z], source[z], meter[z])
    BY <1>2, <1>5 DEF Fitting
  <2>2. \A z \in Zones : Fits(new.rows[z], source[z], meter[z])
    BY <1>3, <2>1 DEF Fits, Continues
  <2> QED
    BY <1>5, <1>14, <1>15, <2>2 DEF Fitting
<1>23. Heard(queue, source)'
  <2>1. Follows(data, r, source)
    BY <1>2, <1>5 DEF Heard
  <2>2. Follows(new, r, source)
    <3>1. SUFFICES ASSUME new.ref >= doubt, NEW z \in Zones
                   PROVE  Followed(new.rows[z], z, r, source[z])
      BY DEF Follows
    <3>2. Followed(data.rows[z], z, r, source[z])
      BY <1>4, <2>1, <3>1 DEF Follows
    <3>3. data.rows[z] \in Rows /\ source[z] \in Samples
      BY <1>2 DEF Bindings
    <3>4. CASE z \in read
      BY <1>3, <3>2, <3>3, <3>4, FollowedRead
    <3>5. CASE z \notin read
      BY <1>3, <3>2, <3>5
    <3> QED
      BY <3>4, <3>5
  <2> QED
    BY <1>4, <1>5, <1>14, <1>15, <2>1, <2>2 DEF Heard, Follows
<1>24. Offered(queue, source)'
  <2>1. Offers(queue)' \subseteq Offers(r) \cup ({result} \ {NoToken})
    BY <1>11, <1>13, <1>14 DEF Offers, Asked
  <2>2. \A p \in Offers(queue)' : Fine(p)
    BY <1>10, <1>11, <2>1
  <2>3. sending' # NoToken => Vouched(sending')
    BY <1>5, <1>11, <1>14 DEF Offered
  <2>4. holder' # NoOp /\ holder'.op = "confirm" /\ holder'.result # NoToken =>
            Vouched(holder'.result)
    BY <1>11, <1>13, <1>14
  <2>5. ~(holder' # NoOp /\ holder'.op = "save")
    BY <1>13, <1>14
  <2> QED
    BY <1>2, <1>15, <1>16, <2>2, <2>3, <2>4, <2>5
       DEF Offered, Fine, Vouched, Truthful, Moot, Refusable, Faultless
<1> QED
  BY <1>17, <1>18, <1>19, <1>20, <1>21, <1>22, <1>23, <1>24 DEF IInv, Sound

(* A binding that has been tracked with the report at the head of the queue.   *)
LEMMA ReportTracked ==
    ASSUME ReferenceConstants, NEW q \in Seq(Operations), q # <<>>, Head(q).op = "observe",
           NEW s \in [Zones -> Samples], NEW old \in Bindings,
           NEW new \in TrackAll(old, {Head(q).zone}, [z \in Zones |-> Head(q).sample])
    PROVE  /\ Continues(new, old)
           /\ Follows(old, q, s) => Follows(new, Tail(q), s)
           /\ \A p : Moot(old, p) \/ Refusable(old, p, q) =>
                        Moot(new, p) \/ Refusable(new, p, Tail(q))
<1> DEFINE op == Head(q)
<1>1. op \in Operations /\ op.zone \in Zones /\ op.sample \in Samples
  BY Advanced, ReportsAreTyped
<1>2. [z \in Zones |-> op.sample] \in [Zones -> Samples] /\ {op.zone} \in SUBSET Zones
  BY <1>1
<1>3. /\ Continues(new, old)
      /\ \A z \in {op.zone} : new.rows[z] \in Track(old.rows[z], [y \in Zones |-> op.sample][z])
      /\ \A z \in Zones \ {op.zone} : new.rows[z] = old.rows[z]
  BY <1>2, TrackMany
<1>4. /\ new.rows[op.zone] \in Track(old.rows[op.zone], op.sample)
      /\ \A z \in Zones : z # op.zone => new.rows[z] = old.rows[z]
      /\ new \in Bindings /\ new.ref = old.ref
  BY <1>1, <1>3 DEF Continues
<1>5. \A z \in Zones : old.rows[z] \in Rows /\ new.rows[z] \in Rows
  BY <1>4 DEF Bindings
<1>6. ASSUME Follows(old, q, s) PROVE Follows(new, Tail(q), s)
  <2>1. SUFFICES ASSUME new.ref >= doubt, NEW z \in Zones
                 PROVE  Followed(new.rows[z], z, Tail(q), s[z])
    BY DEF Follows
  <2>2. Followed(old.rows[z], z, q, s[z])
    BY <1>4, <1>6, <2>1 DEF Follows
  <2>3. IF Head(q).op = "observe" /\ Head(q).zone = z
        THEN new.rows[z] \in Track(old.rows[z], Head(q).sample)
        ELSE new.rows[z] = old.rows[z]
    BY <1>4
  <2> QED
    BY <1>5, <2>2, <2>3, FollowedAdvanced
<1>7. ASSUME NEW p, Moot(old, p)
      PROVE  Moot(new, p)
  <2>1. old # NoBinding /\ new # NoBinding
    BY <1>4 DEF ReferenceConstants
  <2>2. ~Faultless(old) => ~Faultless(new)
    BY <1>3 DEF Faultless, Continues
  <2> QED
    BY <1>4, <1>7, <2>1, <2>2 DEF Moot
<1>8. ASSUME NEW p, Refusable(old, p, q), ~Moot(new, p)
      PROVE  Refusable(new, p, Tail(q))
  <2>1. PICK z \in Zones, i \in DOMAIN q : Kills(old.rows[z], z, q, i) /\ Ahead(q, i, p)
    BY <1>8 DEF Refusable
  <2>2. new.rows[z].fault = "none"
    BY <1>8 DEF Moot, Faultless
  <2>3. /\ new.rows[z].epoch = old.rows[z].epoch /\ new.rows[z].device = old.rows[z].device
        /\ new.rows[z].high >= old.rows[z].high
    BY <1>3 DEF Continues
  <2>4. Head(q).op = "observe" /\ Head(q).zone = z =>
            /\ Head(q).sample.device = old.rows[z].device
            /\ Head(q).sample.value >= old.rows[z].high
            /\ new.rows[z].high = Head(q).sample.value
    BY <1>1, <1>4, <1>5, <2>2, TrackOne
  <2>5. PICK row \in Rows, row2 \in Rows : row = old.rows[z] /\ row2 = new.rows[z]
    BY <1>5
  <2>6. Kills(row, z, q, i)
    BY <2>1, <2>5
  <2>7. row2.epoch = row.epoch /\ row2.device = row.device /\ row2.high >= row.high
    BY <2>3, <2>5
  <2>8. Head(q).op = "observe" /\ Head(q).zone = z =>
            /\ Head(q).sample.device = row.device
            /\ Head(q).sample.value >= row.high /\ row2.high = Head(q).sample.value
    BY <2>4, <2>5
  <2>9. \E k \in DOMAIN Tail(q) : Kills(row2, z, Tail(q), k) /\ Ahead(Tail(q), k, p)
    BY <2>1, <2>6, <2>7, <2>8, RefusableAdvanced
  <2> QED
    BY <2>5, <2>9 DEF Refusable
<1> QED
  BY <1>3, <1>6, <1>7, <1>8

(* observe: what the report does to the binding in force is being written, and *)
(* the changes under review have it.                                           *)
LEMMA RunObserve ==
    ASSUME ReferenceConstants, Shape, NEW q \in Seq(Operations), q # <<>>,
           Len(q) <= MaxQueue + 1, Head(q).op = "observe",
           NEW s \in [Zones -> Samples], NEW m \in Meters, Sound(q, s, m),
           Running(Tail(q)), source' = s, meter' = m, Observe(Head(q))
    PROVE  IInv'
<1> USE DEF Running
<1> DEFINE op == Head(q)
           r == Tail(q)
           report == [z \in Zones |-> op.sample]
           Tracked(t) == {[t EXCEPT !.binding = b] : b \in TrackAll(t.binding, {op.zone}, report)}
<1>1. UNCHANGED <<sending, nextRef>> /\ target = NoBinding
  BY DEF Observe, Sound, Closing
<1>2. PICK f \in [Changes -> UNION {Tracked(t) : t \in Changes}] :
          /\ \A t \in Changes : f[t] \in Tracked(t)
          /\ tokens' = (tokens \ Changes) \cup {f[t] : t \in Changes}
  BY Zenon DEF Observe, Changes
<1>3. ASSUME NEW t \in Changes
      PROVE  /\ f[t] \in Tokens /\ f[t].kind = "change"
             /\ Continues(f[t].binding, t.binding)
             /\ Follows(t.binding, q, s) => Follows(f[t].binding, r, s)
  <2>1. t \in Tokens /\ t.kind = "change" /\ t.binding \in Bindings
    BY DEF Changes, Shape, TypeOK
  <2>2. PICK b \in TrackAll(t.binding, {op.zone}, report) : f[t] = [t EXCEPT !.binding = b]
    BY <1>2
  <2>3. /\ Continues(b, t.binding)
        /\ Follows(t.binding, q, s) => Follows(b, r, s)
    BY <2>1, <2>2, ReportTracked
  <2>4. f[t] \in Tokens /\ f[t].kind = "change" /\ f[t].binding = b
    BY <2>1, <2>2, <2>3 DEF Tokens, Continues
  <2> QED
    BY <2>3, <2>4
<1> HIDE DEF Tracked, report
<1>4. /\ Changes' = {f[t] : t \in Changes}
      /\ {t \in tokens' : t.kind = "proposal"} = {t \in tokens : t.kind = "proposal"}
      /\ tokens' \subseteq Tokens
  BY <1>2, <1>3 DEF Changes, Shape, TypeOK
<1>5. PICK new \in Bindings \cup {NoBinding} :
         /\ data = NoBinding => new = NoBinding
         /\ data # NoBinding =>
               /\ new # NoBinding
               /\ Continues(new, data)
               /\ Follows(data, q, s) => Follows(new, r, s)
               /\ \A p : Moot(data, p) \/ Refusable(data, p, q) =>
                           Moot(new, p) \/ Refusable(new, p, r)
         /\ IF new = data
            THEN UNCHANGED <<holder, target>>
            ELSE Persist("observe", NoToken, new)
  <2>1. CASE data = NoBinding
    BY <2>1 DEF Observe
  <2>2. CASE data # NoBinding
    <3>1. PICK new \in TrackAll(data, {op.zone}, report) :
              IF new = data THEN UNCHANGED <<holder, target>>
                            ELSE Persist("observe", NoToken, new)
      BY <2>2, Zenon DEF Observe, report
    <3>2. data \in Bindings
      BY <2>2 DEF Shape, TypeOK
    <3>3. /\ Continues(new, data)
          /\ Follows(data, q, s) => Follows(new, r, s)
          /\ \A p : Moot(data, p) \/ Refusable(data, p, q) =>
                        Moot(new, p) \/ Refusable(new, p, r)
      BY <3>1, <3>2, ReportTracked DEF report
    <3>4. new \in Bindings /\ new # NoBinding
      BY <3>3 DEF Continues, ReferenceConstants
    <3> QED
      BY <2>2, <3>1, <3>3, <3>4
  <2> QED
    BY <2>1, <2>2
<1>6. PICK h : h = [op |-> "observe", result |-> NoToken]
  OBVIOUS
<1>7. h \in Writes /\ h # NoOp /\ h.op = "observe" /\ h.result = NoToken
  BY <1>6 DEF Writes, ReferenceConstants
<1>8. \/ holder' = NoOp /\ target' = NoBinding /\ new = data
      \/ holder' = h /\ target' = new /\ new # NoBinding /\ data # NoBinding
  BY <1>1, <1>5, <1>6 DEF Persist
<1>9. InForce' = new /\ InForce = data
  BY <1>1, <1>7, <1>8 DEF InForce
<1>10. r \in Seq(Operations) /\ Len(r) <= MaxQueue /\ Len(r) <= MaxQueue + 1
  BY Advanced DEF ReferenceConstants
<1>11. \A t \in Changes : t.binding \in Bindings /\ t.binding.ref < nextRef
  BY DEF Changes, Shape, TypeOK
<1>12. \A u \in Changes' : u.binding \in Bindings /\ u.binding.ref < nextRef
  BY <1>3, <1>4, <1>11 DEF Continues
<1>13. data # NoBinding => new \in Bindings /\ new.ref = data.ref /\ new.ref < nextRef
  BY <1>5 DEF Shape, Continues
<1>14. Shape'
  <2>1. TypeOK'
    BY <1>1, <1>4, <1>5, <1>7, <1>8, <1>10, <1>12 DEF Shape, TypeOK, Changes, Meters
  <2> QED
    BY <1>1, <1>5, <1>7, <1>8, <1>10, <1>12, <1>13, <2>1 DEF Shape
<1>15. Closing(r)
  BY ClosingAdvanced DEF Sound
<1>16. Closing(queue)'
  BY <1>1, <1>7, <1>8, <1>15 DEF Closing
<1>17. Writing'
  BY <1>5, <1>7, <1>8 DEF Writing, Continues
<1>18. Reviewed'
  <2>1. Reviewed
    BY DEF Sound
  <2>2. \A t \in Changes : f[t].binding.ref = t.binding.ref
    BY <1>3 DEF Continues
  <2>3. \A t \in Changes :
            /\ data # NoBinding => f[t].binding.ref # data.ref
            /\ \A z \in Zones : <<f[t].binding.ref, z>> \notin latched
            /\ \A u \in Changes : f[u].binding.ref = f[t].binding.ref => u = t
    BY <2>1, <2>2 DEF Reviewed
  <2>4. ASSUME NEW u \in Changes'
        PROVE  /\ data # NoBinding => u.binding.ref # data.ref
               /\ \A z \in Zones : <<u.binding.ref, z>> \notin latched
               /\ \A v \in Changes' : v.binding.ref = u.binding.ref => v = u
    <3>1. PICK t \in Changes : u = f[t]
      BY <1>4, <2>4
    <3>2. ASSUME NEW v \in Changes', v.binding.ref = u.binding.ref PROVE v = u
      <4>1. PICK y \in Changes : v = f[y]
        BY <1>4, <3>2
      <4> QED
        BY <2>3, <3>1, <3>2, <4>1
    <3> QED
      BY <2>3, <3>1, <3>2
  <2> QED
    BY <2>4, Zenon DEF Reviewed
<1>19. Kept'
  <2>1. Kept
    BY DEF Sound
  <2>2. data # NoBinding =>
            \A z \in Zones : <<new.ref, z>> \in latched => new.rows[z].fault # "none"
    BY <1>5, <2>1 DEF Kept, Continues
  <2> QED
    BY <1>8, <2>1, <2>2 DEF Kept
<1>20. Fitting(source, meter)'
  <2>1. Fitting(s, m)
    BY DEF Sound
  <2>2. data # NoBinding => \A z \in Zones : Fits(new.rows[z], s[z], m[z])
    <3>1. data # NoBinding => \A z \in Zones : Fits(data.rows[z], s[z], m[z])
      BY <2>1 DEF Fitting
    <3> QED
      BY <1>5, <3>1 DEF Fits, Continues
  <2>3. \A t \in Changes : \A z \in Zones : Fits(f[t].binding.rows[z], s[z], m[z])
    <3>1. \A t \in Changes : \A z \in Zones : Fits(t.binding.rows[z], s[z], m[z])
      BY <2>1 DEF Fitting
    <3> QED
      BY <1>3, <3>1 DEF Fits, Continues
  <2> QED
    BY <1>4, <1>8, <2>1, <2>2, <2>3 DEF Fitting
<1>21. Heard(queue, source)'
  <2>1. Heard(q, s)
    BY DEF Sound
  <2>2. data # NoBinding => Follows(data, q, s) /\ Follows(new, r, s)
    BY <1>1, <1>5, <2>1 DEF Heard
  <2>3. \A u \in Changes' : Follows(u.binding, r, s)
    BY <1>3, <1>4, <2>1 DEF Heard
  <2>4. target' # NoBinding => target' = new /\ data # NoBinding /\ new.ref = data.ref
    BY <1>8, <1>13
  <2>5. target' = NoBinding => new = data
    BY <1>8
  <2> QED
    BY <2>2, <2>3, <2>4, <2>5 DEF Heard, Follows
<1>22. Offered(queue, source)'
  <2>1. Offered(q, s)
    BY DEF Sound
  <2>2. Offers(queue)' = Offers(r)
    BY <1>1, <1>4, <1>7, <1>8 DEF Offers, Asked
  <2>3. Offers(r) \subseteq Offers(q)
    BY OffersAdvanced
  <2>4. \A p \in Offers(r) : Vouched(p) \/ Moot(new, p) \/ Refusable(new, p, r)
    <3>1. CASE data = NoBinding
      BY <1>5, <3>1 DEF Moot
    <3>2. CASE data # NoBinding
      BY <1>5, <1>9, <2>1, <2>3, <3>2 DEF Offered
    <3> QED
      BY <3>1, <3>2
  <2>5. \A p \in Offers(r) :
              /\ 0 < p.base[1] /\ p.base[1] < nextRef /\ p.base[2] = {}
              /\ \A t \in Changes : t.binding.ref # p.base[1]
              /\ \A z \in Zones : p.truth[z].epoch <= s[z].epoch
              /\ data # NoBinding /\ data.ref = p.base[1] =>
                    \A z \in Zones : data.rows[z].epoch <= p.truth[z].epoch
    BY <2>1, <2>3 DEF Offered
  <2>6. \A p \in Offers(r) : \A u \in Changes' : u.binding.ref # p.base[1]
    BY <1>3, <1>4, <2>5 DEF Continues
  <2>7. sending # NoToken => Vouched(sending)
    BY <2>1 DEF Offered
  <2>8. holder' # NoOp => holder'.op = "observe"
    BY <1>7, <1>8
  <2>9. \A p : /\ Vouched(p)' <=> Vouched(p)
               /\ Moot(InForce, p)' <=> Moot(new, p)
               /\ Refusable(InForce, p, queue)' <=> Refusable(new, p, r)
    BY <1>9 DEF Vouched, Truthful, Moot, Refusable, Faultless
  <2>10. ASSUME NEW p \in Offers(r)
         PROVE  Vouched(p)' \/ Moot(InForce, p)' \/ Refusable(InForce, p, queue)'
    BY <2>4, <2>9
  <2>11. sending' # NoToken => Vouched(sending)'
    BY <1>1, <2>7 DEF Vouched, Truthful
  <2> QED
    BY <1>1, <2>2, <2>5, <2>6, <2>8, <2>10, <2>11, Zenon DEF Offered
<1> QED
  BY <1>14, <1>16, <1>17, <1>18, <1>19, <1>20, <1>21, <1>22 DEF IInv, Sound

(* Whatever operation has the lock, up to its write or its end.                *)
LEMMA Executed ==
    ASSUME ReferenceConstants, Shape, NEW q \in Seq(Operations), q # <<>>,
           Len(q) <= MaxQueue + 1,
           NEW s \in [Zones -> Samples], NEW m \in Meters, Sound(q, s, m),
           holder = NoOp, queue' = Tail(q), source' = s, meter' = m,
           Head(q).op # "observe" => s = source /\ m = meter,
           Execute(Head(q))
    PROVE  IInv'
<1> DEFINE op == Head(q)
           r == Tail(q)
<1>1. /\ r \in Seq(Operations) /\ Len(r) <= MaxQueue /\ Len(r) <= MaxQueue + 1
      /\ op \in Operations /\ q[1] = op
      /\ DOMAIN q = 1..Len(q) /\ 1 \in DOMAIN q
      /\ \A i \in DOMAIN r : r[i] = q[i + 1] /\ i + 1 \in DOMAIN q /\ 1 < i + 1
  BY Advanced DEF ReferenceConstants
<1>2. Offers(q) \subseteq Tokens /\ target = NoBinding
  BY OffersAreTyped DEF Sound, Closing
<1>3. UNCHANGED <<listening, data, disk, latched>>
  BY DEF Execute
<1>4. op.op # "observe" \/ manager # "open" => Sound(r, s, m)
  BY <1>2, SoundAdvanced
<1>5. CASE op.op = "close"
  <2>1. /\ manager' = "closed" /\ tokens' = {}
        /\ UNCHANGED <<holder, target, nextRef, sending, doubt>>
    BY <1>5 DEF Execute
  <2>2. \A i \in DOMAIN r : r[i].op # "observe"
    BY <1>1, <1>5 DEF Sound, Closing
  <2>3. Sound(queue, source, meter)'
    BY <1>1, <1>3, <1>4, <1>5, <2>1, <2>2, RunClose
  <2>4. Shape'
    BY <1>1, <1>3, <2>1 DEF Shape, TypeOK, Changes, Meters
  <2> QED
    BY <2>3, <2>4 DEF IInv
<1>6. CASE op.op # "close" /\ (manager # "open" \/ (Refused /\ op.op # "observe"))
  <2>1. /\ Refused /\ UNCHANGED manager
        /\ doubt' \in {doubt, nextRef} /\ (manager = "open" => doubt' = doubt)
    BY <1>6 DEF Execute
  <2>2. Sound(r, s, m)
    BY <1>4, <1>6
  <2>3. Sound(queue, source, meter)'
    BY <1>3, <2>1, <2>2, RunRefused
  <2>4. nextRef \in 1..(MaxRefs + 1) /\ doubt \in 1..nextRef
    BY DEF Shape, TypeOK
  <2>5. doubt' \in 1..nextRef
    BY <2>1, <2>4 DEF ReferenceConstants
  <2>6. Shape'
    BY <1>1, <1>3, <2>1, <2>5 DEF Shape, TypeOK, Changes, Meters, Refused
  <2> QED
    BY <2>3, <2>6 DEF IInv
<1>7. CASE op.op # "close" /\ manager = "open" /\ ~(Refused /\ op.op # "observe")
  <2>1. /\ UNCHANGED <<manager, doubt>>
        /\ \/ op.op = "observe" /\ Observe(op)
           \/ op.op = "get" /\ Get
           \/ op.op \in {"check", "confirm"} /\ Validate(op)
           \/ op.op = "preview" /\ Preview
           \/ op.op = "save" /\ Save(op)
           \/ op.op = "remove" /\ Remove
    BY <1>7 DEF Execute
  <2>2. Running(r)
    BY <1>3, <1>7, <2>1 DEF Running
  <2>3. op.op # "observe" => /\ Sound(r, source, meter) /\ UNCHANGED worldVars
    BY <1>4 DEF worldVars
  <2>4. CASE op.op = "observe" /\ Observe(op)
    BY <2>2, <2>4, RunObserve
  <2>5. CASE op.op = "get" /\ Get
    <3>1. data # NoBinding /\ View("get", NoToken) /\ nextRef' = nextRef
      BY <2>5 DEF Get
    <3> QED
      BY <1>1, <2>2, <2>3, <2>5, <3>1, RunView
  <2>6. CASE op.op \in {"check", "confirm"} /\ Validate(op)
    <3>1. PICK token : token = op.token
      OBVIOUS
    <3>2. /\ token \in tokens /\ token.kind = "proposal" /\ token.base = Revision(data)
          /\ View(op.op, token) /\ nextRef' = nextRef
      BY <2>6, <3>1 DEF Validate, Live
    <3>3. token \in Offers(r) /\ token \in Offers(q) /\ token # NoToken
      <4>1. token \in Offers(r) /\ token \in Offers(q)
        BY <3>2 DEF Offers
      <4>2. token \in Tokens
        BY <1>2, <4>1
      <4> QED
        BY <4>1, <4>2 DEF ReferenceConstants
    <3>4. /\ 0 < token.base[1] /\ token.base[2] = {}
          /\ Vouched(token) \/ Moot(InForce, token) \/ Refusable(InForce, token, q)
      BY <1>7, <3>3 DEF Sound, Offered
    <3>5. data # NoBinding
      BY <3>2, <3>4 DEF Revision
    <3>6. InForce = data /\ ~Moot(data, token)
      <4>1. data.ref = token.base[1] /\ {z \in Zones : data.rows[z].fault # "none"} = {}
        BY <3>2, <3>4, <3>5 DEF Revision
      <4> QED
        BY <1>2, <3>5, <4>1 DEF InForce, Moot, Faultless
    <3>7. ~Refusable(data, token, q)
      <4>1. SUFFICES ASSUME NEW z \in Zones, NEW i \in DOMAIN q,
                            Kills(data.rows[z], z, q, i), Ahead(q, i, token)
                     PROVE  FALSE
        BY DEF Refusable
      <4>2. i = 1
        BY <1>1, <2>6, <3>1, <4>1 DEF Ahead, Asked
      <4> QED
        BY <1>1, <2>6, <4>1, <4>2 DEF Kills, Reported
    <3>8. Vouched(token)
      BY <3>4, <3>6, <3>7
    <3> QED
      BY <1>1, <2>2, <2>3, <2>6, <3>2, <3>3, <3>5, <3>8, RunView
  <2>7. CASE op.op = "preview" /\ Preview
    BY <1>1, <2>2, <2>3, <2>7, RunPreview
  <2>8. CASE op.op = "save" /\ Save(op)
    BY <1>1, <2>2, <2>3, <2>8, RunSave
  <2>9. CASE op.op = "remove" /\ Remove
    BY <1>1, <2>2, <2>3, <2>9, RunRemove
  <2> QED
    BY <2>1, <2>4, <2>5, <2>6, <2>7, <2>8, <2>9
<1> QED
  BY <1>5, <1>6, <1>7

-------------------------------------------------------------------------------
(* An operation asks for the lock.                                             *)
LEMMA Submitted ==
    ASSUME ReferenceConstants, IInv, NEW op \in Operations, op.op # "close",
           NEW s \in [Zones -> Samples], NEW m \in Meters, source' = s, meter' = m,
           Sensed(op, source, s), Senses(source, meter, s, m),
           op.op = "observe" => listening /\ manager # "closed",
           op.op # "observe" => s = source /\ m = meter,
           op.op \in {"check", "confirm"} => op.token \in tokens /\ op.token.kind = "proposal",
           Submit(op)
    PROVE  IInv'
<1> DEFINE q == Append(queue, op)
<1>1. /\ Shape /\ Sound(queue, source, meter)
      /\ queue \in Seq(Operations) /\ source \in [Zones -> Samples] /\ meter \in Meters
  BY DEF IInv, Shape, TypeOK, Meters
<1>2. /\ q \in Seq(Operations) /\ Len(q) = Len(queue) + 1 /\ Len(queue) \in Nat
      /\ DOMAIN queue = 1..Len(queue) /\ DOMAIN q = 1..(Len(queue) + 1)
      /\ \A i \in DOMAIN queue : q[i] = queue[i]
      /\ q[Len(queue) + 1] = op
  BY <1>1, Appended
<1>3. Closing(q)
  <2>1. Closing(queue)
    BY <1>1 DEF Sound
  <2>2. \A i \in DOMAIN q : q[i].op = "close" => i \in DOMAIN queue /\ queue[i].op = "close"
    BY <1>2
  <2>3. \A j \in DOMAIN q : q[j].op = "observe" =>
            (j \in DOMAIN queue /\ queue[j].op = "observe") \/ (j = Len(queue) + 1 /\ listening)
    BY <1>2
  <2>4. listening => \A i \in DOMAIN q : q[i].op # "close"
    BY <2>1, <2>2 DEF Closing
  <2>5. \A i, j \in DOMAIN q : i < j /\ q[i].op = "close" => q[j].op # "observe"
    BY <2>1, <2>2, <2>3 DEF Closing
  <2> HIDE DEF q
  <2> QED
    BY <2>1, <2>4, <2>5 DEF Closing
<1>4. Sound(q, s, m)
  <2>1. /\ Closing(queue) /\ Heard(queue, source) /\ Fitting(source, meter)
        /\ Offered(queue, source) /\ Writing /\ Reviewed /\ Kept
    BY <1>1 DEF Sound
  <2>2. Heard(q, s)
    BY <1>1, <2>1, HeardAppended
  <2>3. Fitting(s, m)
    BY <1>1, <2>1, FittingSensed
  <2>4. Offered(q, s)
    BY <1>1, <2>1, OffersAreTyped, OfferedAppended DEF Senses
  <2> QED
    BY <1>3, <2>1, <2>2, <2>3, <2>4 DEF Sound
<1>5. CASE holder = NoOp /\ queue = <<>>
  <2>1. Execute(op) /\ queue' = <<>> /\ queue = <<>>
    BY <1>5 DEF Submit
  <2>2. q # <<>> /\ Head(q) = op /\ Tail(q) = <<>> /\ Len(q) = 1
    BY <1>5
  <2>3. Len(q) <= MaxQueue + 1
    BY <2>2 DEF ReferenceConstants
  <2> HIDE DEF q
  <2> QED
    BY <1>1, <1>2, <1>4, <1>5, <2>1, <2>2, <2>3, Executed
<1>6. CASE ~(holder = NoOp /\ queue = <<>>)
  <2>1. /\ Len(queue) < MaxQueue /\ queue' = q
        /\ UNCHANGED <<manager, listening, data, disk, tokens, holder, target, nextRef,
                       sending, ghostVars>>
    BY <1>6 DEF Submit
  <2>2. Len(q) <= MaxQueue /\ Len(q) <= MaxQueue + 1
    BY <1>2, <2>1 DEF ReferenceConstants
  <2> HIDE DEF q
  <2>3. Shape'
    BY <1>1, <1>2, <2>1, <2>2 DEF Shape, TypeOK, Changes, Meters, ghostVars
  <2>4. Sound(queue, source, meter)'
    <3>1. /\ Closing(q) /\ Heard(q, s) /\ Fitting(s, m) /\ Offered(q, s)
          /\ Writing /\ Reviewed /\ Kept
      BY <1>4 DEF Sound
    <3>2. Closing(queue)' /\ Writing' /\ Reviewed' /\ Kept'
      BY <2>1, <3>1 DEF Closing, Writing, Reviewed, Kept, Changes, Faultless, ghostVars
    <3>3. Fitting(source, meter)'
      BY <2>1, <3>1 DEF Fitting, Changes
    <3>4. Heard(queue, source)'
      BY <2>1, <3>1 DEF Heard, Follows, Changes, ghostVars
    <3>5. Offered(queue, source)'
      BY <2>1, <3>1 DEF Offered, Offers, Asked, InForce, Vouched, Truthful, Moot, Refusable,
                        Changes, Faultless, ghostVars
    <3> QED
      BY <3>2, <3>3, <3>4, <3>5 DEF Sound
  <2> QED
    BY <2>3, <2>4 DEF IInv
<1> QED
  BY <1>5, <1>6

(* A report that nobody listens to: the references so far are not vouched for. *)
LEMMA Missed ==
    ASSUME ReferenceConstants, IInv,
           NEW s \in [Zones -> Samples], NEW m \in Meters, source' = s, meter' = m,
           Senses(source, meter, s, m), doubt' = nextRef, UNCHANGED <<programVars, latched>>
    PROVE  IInv'
<1> USE DEF programVars
<1>1. /\ Shape /\ Sound(queue, source, meter) /\ Changes' = Changes /\ InForce' = InForce
      /\ queue \in Seq(Operations) /\ source \in [Zones -> Samples] /\ meter \in Meters
  BY DEF IInv, Shape, TypeOK, Meters, Changes, InForce
<1>2. nextRef \in Int /\ nextRef \in 1..nextRef
  BY <1>1 DEF Shape, TypeOK, ReferenceConstants
<1>3. \A b \in ({data, disk, target} \ {NoBinding}) \cup {t.binding : t \in Changes} :
         ~(b.ref >= nextRef)
  BY <1>1, <1>2, BindingsAreTyped
<1>4. Shape'
  BY <1>1, <1>2 DEF Shape, TypeOK, Changes, Meters
<1>5. Closing(queue)' /\ Writing' /\ Reviewed' /\ Kept'
  BY <1>1 DEF Sound, Closing, Writing, Reviewed, Kept, Faultless
<1>6. Fitting(source, meter)'
  <2>1. Fitting(s, m)
    BY <1>1, FittingSensed DEF Sound
  <2> QED
    BY <1>1, <2>1 DEF Fitting
<1>7. Heard(queue, source)'
  BY <1>1, <1>3 DEF Heard, Follows
<1>8. Offered(queue, source)'
  <2>1. Offers(queue)' = Offers(queue)
    BY <1>1 DEF Offers, Asked
  <2>2. \A p \in Offers(queue) : p.base[1] \in Int /\ p \in Tokens
    BY <1>1, OffersAreTyped
  <2>3. SUFFICES ASSUME manager = "open"
                 PROVE  /\ \A p \in Offers(queue) :
                              /\ 0 < p.base[1] /\ p.base[1] < nextRef /\ p.base[2] = {}
                              /\ \A t \in Changes : t.binding.ref # p.base[1]
                              /\ holder # NoOp /\ holder.op = "save" => target.ref # p.base[1]
                              /\ \A z \in Zones : p.truth[z].epoch <= s[z].epoch
                              /\ data # NoBinding /\ data.ref = p.base[1] =>
                                    \A z \in Zones : data.rows[z].epoch <= p.truth[z].epoch
                        /\ sending # NoToken => sending \in Offers(queue)
                        /\ holder # NoOp /\ holder.op = "confirm" /\ holder.result # NoToken =>
                              holder.result \in Offers(queue)
    BY <1>1, <2>1 DEF Offered, Vouched
  <2>4. ASSUME NEW p \in Offers(queue), NEW z \in Zones
        PROVE  p.truth[z].epoch <= s[z].epoch
    <3>1. p.truth[z].epoch <= source[z].epoch
      BY <1>1, <2>3 DEF Sound, Offered
    <3>2. source[z].epoch <= s[z].epoch
      BY <1>1 DEF Senses, Samples, ReferenceConstants
    <3>3. p.truth[z].epoch \in Int /\ source[z].epoch \in Int /\ s[z].epoch \in Int
      <4>1. /\ p.truth[z] \in [meter : 0..MaxMeter, epoch : 0..MaxEpoch]
            /\ source[z] \in Samples /\ s[z] \in Samples
        BY <1>1, <2>2 DEF Tokens
      <4> QED
        BY <4>1 DEF Samples, ReferenceConstants
    <3> QED
      BY <3>1, <3>2, <3>3
  <2>5. Offered(queue, source)
    BY <1>1 DEF Sound
  <2>6. /\ sending # NoToken => sending \in Offers(queue)
        /\ holder # NoOp /\ holder.op = "confirm" /\ holder.result # NoToken =>
              holder.result \in Offers(queue)
    BY DEF Offers
  <2> QED
    BY <2>3, <2>4, <2>5, <2>6 DEF Offered
<1> QED
  BY <1>4, <1>5, <1>6, <1>7, <1>8 DEF IInv, Sound

-------------------------------------------------------------------------------
(* The steps of the specification.                                             *)

(* The sensors report what they count, or the beginning of another epoch.      *)
LEMMA Sensing ==
    ASSUME ReferenceConstants, IInv, NEW z \in Zones, NEW sample \in Samples,
           NEW m \in Meters, meter' = m, Report(z, sample), Succeeds(sample, source[z]),
           \A y \in Zones : y # z => m[y] = meter[y],
           sample.epoch = source[z].epoch => m[z] = meter[z] + sample.value - source[z].value
    PROVE  IInv'
<1>1. source \in [Zones -> Samples] /\ meter \in Meters
  BY DEF IInv, Shape, TypeOK, Meters
<1>2. PICK s : s = [source EXCEPT ![z] = sample]
  OBVIOUS
<1>3. s \in [Zones -> Samples] /\ source' = s /\ s[z] = sample
      /\ \A y \in Zones : y # z => s[y] = source[y]
  BY <1>1, <1>2 DEF Report
<1>4. Senses(source, meter, s, m)
  <2>1. SUFFICES ASSUME NEW y \in Zones
                 PROVE  /\ s[y].epoch >= source[y].epoch
                        /\ s[y].epoch = source[y].epoch =>
                              m[y] = meter[y] + s[y].value - source[y].value
    BY DEF Senses
  <2>2. /\ source[y].epoch \in Int /\ source[y].value \in Int /\ meter[y] \in Int
        /\ sample.epoch \in Int
    <3>1. source[y] \in Samples /\ meter[y] \in 0..MaxMeter
      BY <1>1 DEF Meters
    <3> QED
      BY <3>1 DEF Samples, ReferenceConstants
  <2>3. CASE y = z
    BY <1>3, <2>2, <2>3 DEF Succeeds
  <2>4. CASE y # z
    BY <1>3, <2>2, <2>4
  <2> QED
    BY <2>3, <2>4
<1>5. PICK op : op = [op |-> "observe", zone |-> z, sample |-> sample]
  OBVIOUS
<1>6. op \in Operations /\ op.op = "observe" /\ op.zone = z /\ op.sample = sample
  BY <1>5 DEF Operations, Reports
<1>7. Sensed(op, source, s)
  BY <1>2, <1>6 DEF Sensed
<1>8. CASE Uses
  <2>1. Submit(op) /\ listening /\ manager # "closed"
    BY <1>5, <1>8 DEF Report, Uses
  <2> QED
    BY <1>3, <1>4, <1>6, <1>7, <2>1, Submitted
<1>9. CASE ~Uses
  <2>1. doubt' = nextRef /\ UNCHANGED <<programVars, latched>>
    BY <1>9 DEF Report
  <2> QED
    BY <1>3, <1>4, <2>1, Missed
<1> QED
  BY <1>8, <1>9

LEMMA SensorsStep ==
    ASSUME ReferenceConstants, IInv, Sensors
    PROVE  IInv'
<1>1. source \in [Zones -> Samples] /\ meter \in Meters /\ MaxMeter \in Nat /\ MaxValue \in Nat
      /\ MaxEpoch \in Nat
  BY DEF IInv, Shape, TypeOK, Meters, ReferenceConstants
<1>2. ASSUME NEW z \in Zones, NEW k \in 1..MaxValue, Rise(z, k)
      PROVE  IInv'
  <2>1. PICK x \in Samples : x = source[z]
    BY <1>1
  <2>2. PICK y \in Samples : y = [x EXCEPT !.value = @ + k]
    BY <1>1, <1>2, <2>1 DEF Rise, Samples
  <2>3. y.value = x.value + k /\ y.epoch = x.epoch /\ y.device = x.device
    BY <2>1, <2>2 DEF Samples
  <2>4. x.value \in Int /\ y.value \in Int /\ k \in Int /\ k > 0
    BY <1>1, <2>1, <2>2 DEF Samples
  <2>5. PICK m : m = [meter EXCEPT ![z] = @ + k]
    OBVIOUS
  <2>6. meter[z] \in 0..MaxMeter /\ meter[z] + k <= MaxMeter
    BY <1>1, <1>2 DEF Meters, Rise
  <2>7. meter[z] + k \in 0..MaxMeter
    BY <1>1, <2>4, <2>6
  <2>8. m \in Meters /\ m[z] = meter[z] + k /\ \A v \in Zones : v # z => m[v] = meter[v]
    BY <1>1, <2>5, <2>7 DEF Meters
  <2>9. meter' = m /\ Report(z, y)
    BY <1>2, <2>1, <2>2, <2>5 DEF Rise
  <2>10. Succeeds(y, x)
    BY <2>3, <2>4 DEF Succeeds
  <2>11. m[z] = meter[z] + y.value - x.value
    BY <2>3, <2>4, <2>6, <2>8
  <2> QED
    BY <2>1, <2>8, <2>9, <2>10, <2>11, Sensing
<1>3. ASSUME NEW z \in Zones, NEW value \in 0..MaxValue, Reset(z, value)
      PROVE  IInv'
  <2>1. PICK x \in Samples : x = source[z]
    BY <1>1
  <2>2. x.epoch \in 0..MaxEpoch /\ x.epoch < MaxEpoch /\ x.epoch + 1 \in 0..MaxEpoch
    BY <1>1, <1>3, <2>1 DEF Reset, Samples
  <2>3. PICK y \in Samples : y = [x EXCEPT !.value = value, !.epoch = @ + 1]
    BY <2>1, <2>2 DEF Samples
  <2>4. y.value = value /\ y.epoch = x.epoch + 1
    BY <2>1, <2>3 DEF Samples
  <2>5. meter' = meter /\ Report(z, y) /\ value < x.value
    BY <1>3, <2>1, <2>3 DEF Reset
  <2>6. Succeeds(y, x) /\ y.epoch # x.epoch
    BY <2>2, <2>4, <2>5 DEF Succeeds
  <2> QED
    BY <1>1, <2>1, <2>5, <2>6, Sensing
<1>4. ASSUME NEW z \in Zones, NEW device \in Devices, NEW value \in 0..MaxValue,
             Replace(z, device, value)
      PROVE  IInv'
  <2>1. PICK x \in Samples : x = source[z]
    BY <1>1
  <2>2. x.epoch \in 0..MaxEpoch /\ x.epoch < MaxEpoch /\ x.epoch + 1 \in 0..MaxEpoch
    BY <1>1, <1>4, <2>1 DEF Replace, Samples
  <2>3. PICK y \in Samples : y = [value |-> value, device |-> device, epoch |-> x.epoch + 1]
    BY <2>1, <2>2 DEF Samples
  <2>4. y.device = device /\ y.epoch = x.epoch + 1
    BY <2>3
  <2>5. meter' = meter /\ Report(z, y) /\ device # x.device
    BY <1>4, <2>1, <2>3 DEF Replace
  <2>6. Succeeds(y, x) /\ y.epoch # x.epoch
    BY <2>2, <2>4, <2>5 DEF Succeeds
  <2> QED
    BY <1>1, <2>1, <2>5, <2>6, Sensing
<1> QED
  BY <1>2, <1>3, <1>4 DEF Sensors

(* The requests of users and of the submission manager.                        *)
LEMMA AskStep ==
    ASSUME ReferenceConstants, IInv, Ask
    PROVE  IInv'
<1>1. /\ source \in [Zones -> Samples] /\ meter \in Meters /\ tokens \subseteq Tokens
      /\ \A z \in Zones : source[z].epoch \in Int /\ source[z].value \in Int /\ meter[z] \in Int
  <2>1. source \in [Zones -> Samples] /\ meter \in Meters /\ tokens \subseteq Tokens
    BY DEF IInv, Shape, TypeOK, Meters
  <2>2. \A z \in Zones : source[z] \in Samples /\ meter[z] \in 0..MaxMeter
    BY <2>1 DEF Meters
  <2> QED
    BY <2>1, <2>2 DEF Samples, ReferenceConstants
<1>2. Senses(source, meter, source, meter)
  BY <1>1 DEF Senses
<1>3. ASSUME NEW op \in Requests, op.op # "close", Submit(op), UNCHANGED worldVars,
             op.op \in {"check", "confirm"} => op.token \in tokens /\ op.token.kind = "proposal"
      PROVE  IInv'
  <2>1. op \in Operations /\ op.op # "observe"
    BY DEF Operations, Requests
  <2>2. Sensed(op, source, source) /\ source' = source /\ meter' = meter
    BY <1>3, <2>1 DEF Sensed, worldVars
  <2> QED
    BY <1>1, <1>2, <1>3, <2>1, <2>2, Submitted
<1>4. CASE AskGet \/ AskPreview \/ AskRemove
  <2>1. PICK name \in {"get", "preview", "remove"} :
           Submit([op |-> name]) /\ UNCHANGED worldVars
    BY <1>4 DEF AskGet, AskPreview, AskRemove
  <2>2. PICK op : op = [op |-> name]
    OBVIOUS
  <2>3. op \in Requests /\ op.op \notin {"close", "check", "confirm"}
    BY <2>2 DEF Requests
  <2> QED
    BY <1>3, <2>1, <2>2, <2>3
<1>5. CASE AskSave
  <2>1. PICK t \in tokens : Submit([op |-> "save", token |-> t]) /\ UNCHANGED worldVars
    BY <1>5 DEF AskSave
  <2>2. PICK op : op = [op |-> "save", token |-> t]
    OBVIOUS
  <2>3. op \in Requests /\ op.op \notin {"close", "check", "confirm"}
    BY <1>1, <2>2 DEF Requests
  <2> QED
    BY <1>3, <2>1, <2>2, <2>3
<1>6. CASE AskValidate
  <2>1. PICK t \in tokens, name \in {"check", "confirm"} :
           t.kind = "proposal" /\ Submit([op |-> name, token |-> t]) /\ UNCHANGED worldVars
    BY <1>6 DEF AskValidate
  <2>2. PICK op : op = [op |-> name, token |-> t]
    OBVIOUS
  <2>3. op \in Requests /\ op.op # "close" /\ op.token = t
    BY <1>1, <2>2 DEF Requests
  <2> QED
    BY <1>3, <2>1, <2>2, <2>3
<1> QED
  BY <1>4, <1>5, <1>6 DEF Ask

(* A token expires, a submission ends, or nothing happens.                     *)
LEMMA ForgettingStep ==
    ASSUME ReferenceConstants, IInv,
           tokens' \subseteq tokens, sending' \in {sending, NoToken},
           UNCHANGED <<manager, listening, data, disk, queue, holder, target, nextRef,
                       source, meter, doubt, latched>>
    PROVE  IInv'
<1>1. Shape /\ Sound(queue, source, meter)
  BY DEF IInv
<1>2. Changes' \subseteq Changes /\ InForce' = InForce
  BY DEF Changes, InForce
<1>3. Shape'
  BY <1>1, <1>2 DEF Shape, TypeOK
<1>4. Closing(queue)' /\ Writing' /\ Kept'
  BY <1>1, <1>2 DEF Sound, Closing, Writing, Kept, Faultless
<1>5. Reviewed' /\ Fitting(source, meter)'
  <2>1. Reviewed /\ Fitting(source, meter)
    BY <1>1 DEF Sound
  <2>2. Reviewed'
    BY <1>2, <2>1 DEF Reviewed
  <2>3. Fitting(source, meter)'
    BY <1>2, <2>1 DEF Fitting
  <2> QED
    BY <2>2, <2>3
<1>6. Heard(queue, source)'
  BY <1>1, <1>2 DEF Sound, Heard, Follows
<1>7. Offered(queue, source)'
  <2>1. Offers(queue)' \subseteq Offers(queue)
    BY DEF Offers, Asked
  <2>2. Offered(queue, source)
    BY <1>1 DEF Sound
  <2> QED
    BY <1>2, <2>1, <2>2 DEF Offered, Vouched, Truthful, Moot, Refusable, Faultless
<1> QED
  BY <1>3, <1>4, <1>5, <1>6, <1>7 DEF IInv, Sound

(* The first that waits has the lock.                                          *)
LEMMA RunNextStep ==
    ASSUME ReferenceConstants, IInv, RunNext
    PROVE  IInv'
<1>1. PICK q \in Seq(Operations), s \in [Zones -> Samples], m \in Meters :
         q = queue /\ s = source /\ m = meter
  BY DEF IInv, Shape, TypeOK, Meters
<1>2. /\ Shape /\ Sound(q, s, m) /\ Len(q) <= MaxQueue + 1
  BY <1>1 DEF IInv, Shape, TypeOK
<1>3. /\ q # <<>> /\ holder = NoOp /\ Execute(Head(q)) /\ queue' = Tail(q)
      /\ source' = s /\ meter' = m
  BY <1>1 DEF RunNext, worldVars
<1> QED
  BY <1>1, <1>2, <1>3, Executed

(* The write is on disk: its binding is in force, and its result is delivered.  *)
LEMMA SaveReturnsStep ==
    ASSUME ReferenceConstants, IInv, SaveReturns
    PROVE  IInv'
<1> USE DEF worldVars
<1>1. /\ Shape /\ holder \in Writes /\ target \in Bindings \cup {NoBinding}
      /\ Closing(queue) /\ Writing /\ Reviewed /\ Kept /\ Heard(queue, source)
      /\ Fitting(source, meter) /\ Offered(queue, source)
  BY DEF IInv, Sound, Shape, TypeOK, SaveReturns
<1>2. /\ holder # NoOp /\ holder' = NoOp /\ target' = NoBinding
      /\ data' = target /\ disk' = target
      /\ UNCHANGED <<manager, listening, queue, nextRef, source, meter, doubt>>
  BY DEF SaveReturns
<1>3. manager = "open" /\ data = disk
  BY <1>1, <1>2 DEF Closing
<1>4. PICK h \in Writes : h = holder
  BY <1>1
<1>5. /\ tokens' \subseteq tokens \cup ({h.result} \ {NoToken})
      /\ tokens' # tokens => \/ h.op = "save" /\ tokens' = tokens \ {h.result}
                             \/ h.op = "get" /\ tokens' = tokens \cup ({h.result} \ {NoToken})
      /\ h.op = "save" => tokens' = tokens \ {h.result}
      /\ sending' = sending \/ (h.op = "confirm" /\ sending' = h.result)
  BY <1>4 DEF SaveReturns, Deliver
<1>6. h.result \in Tokens \cup {NoToken}
  BY <1>1, <1>2, <1>4 DEF Shape, TypeOK
<1>7. Changes' = IF h.op = "save" THEN Changes \ {h.result} ELSE Changes
  <2>1. h.op = "get" /\ h.result # NoToken => h.result.kind = "proposal"
    BY <1>1, <1>2, <1>4 DEF Writing
  <2> QED
    BY <1>5, <2>1 DEF Changes
<1>8. latched' = IF target = NoBinding THEN latched
                 ELSE latched \cup {<<target.ref, z>> :
                                       z \in {y \in Zones : target.rows[y].fault # "none"}}
  BY DEF SaveReturns
<1>9. target # NoBinding => /\ target \in Bindings /\ target.ref \in 1..MaxRefs
                            /\ target.ref < nextRef
  BY <1>1 DEF Bindings, Shape
<1>10. InForce' = target
  BY <1>2 DEF InForce
<1>11. Shape'
  <2>1. latched' \subseteq (1..MaxRefs) \X Zones
    BY <1>1, <1>8, <1>9 DEF Shape, TypeOK
  <2>2. \A p \in latched' : p[1] < nextRef
    BY <1>1, <1>8, <1>9 DEF Shape
  <2>3. tokens' \subseteq Tokens /\ sending' \in Tokens \cup {NoToken}
    BY <1>1, <1>5, <1>6 DEF Shape, TypeOK
  <2>4. \A t \in Changes' : t.binding \in Bindings /\ t.binding.ref < nextRef
    BY <1>1, <1>7 DEF Shape, TypeOK, Changes
  <2>5. TypeOK'
    BY <1>1, <1>2, <2>1, <2>3, <2>4 DEF Shape, TypeOK, Changes
  <2> QED
    BY <1>1, <1>2, <1>9, <2>2, <2>4, <2>5 DEF Shape
<1>12. Closing(queue)' /\ Writing'
  BY <1>1, <1>2 DEF Closing, Writing
<1>13. \A u \in Changes' :
          /\ u \in Changes
          /\ target # NoBinding => u.binding.ref # target.ref
  <2>1. CASE h.op = "save"
    BY <1>1, <1>2, <1>4, <1>7, <2>1 DEF Writing
  <2>2. CASE h.op # "save"
    BY <1>1, <1>2, <1>3, <1>4, <1>7, <2>2 DEF Writing, Reviewed
  <2> QED
    BY <2>1, <2>2
<1>14. Reviewed'
  <2>1. \A u \in Changes' : \A z \in Zones : <<u.binding.ref, z>> \notin latched'
    BY <1>1, <1>3, <1>8, <1>13 DEF Reviewed
  <2> QED
    BY <1>1, <1>2, <1>3, <1>13, <2>1 DEF Reviewed
<1>15. Kept'
  <2>1. target # NoBinding =>
            \A z \in Zones : <<target.ref, z>> \in latched' => target.rows[z].fault # "none"
    BY <1>1, <1>8 DEF Kept
  <2> QED
    BY <1>2, <2>1 DEF Kept
<1>16. Fitting(source, meter)'
  BY <1>1, <1>2, <1>13 DEF Fitting
<1>17. Heard(queue, source)'
  <2>1. target # NoBinding => Follows(target, queue, source)
    BY <1>1, <1>3 DEF Heard
  <2>2. \A u \in Changes' : Follows(u.binding, queue, source)
    BY <1>1, <1>3, <1>13 DEF Heard
  <2> QED
    BY <1>2, <1>3, <2>1, <2>2 DEF Heard, Follows
<1>18. Offered(queue, source)'
  <2>1. Offers(queue)' \subseteq Offers(queue)
    <3>1. h.op \in {"get", "confirm"} /\ h.result # NoToken => h.result \in Offers(queue)
      BY <1>2, <1>4 DEF Offers
    <3>2. {t \in tokens' : t.kind = "proposal"} \subseteq Offers(queue)
      BY <1>5, <3>1 DEF Offers
    <3>3. {sending'} \ {NoToken} \subseteq Offers(queue)
      BY <1>5, <3>1 DEF Offers
    <3> QED
      BY <1>2, <3>2, <3>3 DEF Offers, Asked
  <2>2. ASSUME NEW p \in Offers(queue)
        PROVE  /\ target # NoBinding /\ target.ref = p.base[1] =>
                     \A z \in Zones : target.rows[z].epoch <= p.truth[z].epoch
               /\ Vouched(p) \/ Moot(target, p) \/ Refusable(target, p, queue)
    <3>1. /\ h.op = "save" => target.ref # p.base[1]
          /\ data # NoBinding /\ data.ref = p.base[1] =>
                     \A z \in Zones : data.rows[z].epoch <= p.truth[z].epoch
          /\ Vouched(p) \/ Moot(InForce, p) \/ Refusable(InForce, p, queue)
      BY <1>1, <1>2, <1>3, <1>4 DEF Offered
    <3>2. CASE h.op = "save"
      BY <3>1, <3>2 DEF Moot
    <3>3. CASE h.op # "save" /\ target = NoBinding
      BY <3>3 DEF Moot
    <3>4. CASE h.op # "save" /\ target # NoBinding
      <4>1. InForce = target
        BY <1>4, <3>4 DEF InForce
      <4>2. /\ data # NoBinding /\ target.ref = data.ref
            /\ \A z \in Zones : target.rows[z].epoch = data.rows[z].epoch
        BY <1>1, <1>2, <1>4, <3>4 DEF Writing
      <4> QED
        BY <3>1, <4>1, <4>2
    <3> QED
      BY <3>2, <3>3, <3>4
  <2>3. sending' # NoToken => Vouched(sending')
    BY <1>1, <1>2, <1>3, <1>4, <1>5 DEF Offered
  <2>4. \A p \in Offers(queue) :
              /\ 0 < p.base[1] /\ p.base[1] < nextRef /\ p.base[2] = {}
              /\ \A t \in Changes : t.binding.ref # p.base[1]
              /\ \A z \in Zones : p.truth[z].epoch <= source[z].epoch
    BY <1>1, <1>3 DEF Offered
  <2>5. \A p : /\ Vouched(p)' <=> Vouched(p)
               /\ Moot(InForce, p)' <=> Moot(target, p)
               /\ Refusable(InForce, p, queue)' <=> Refusable(target, p, queue)
    BY <1>2, <1>10 DEF Vouched, Truthful, Moot, Refusable, Faultless
  <2>6. \A p \in Offers(queue)' : Vouched(p)' \/ Moot(InForce, p)' \/ Refusable(InForce, p, queue)'
    BY <2>1, <2>2, <2>5
  <2>7. sending' # NoToken => Vouched(sending)'
    BY <1>2, <2>3 DEF Vouched, Truthful
  <2>8. \A p \in Offers(queue)' :
              /\ 0 < p.base[1] /\ p.base[1] < nextRef' /\ p.base[2] = {}
              /\ \A t \in Changes' : t.binding.ref # p.base[1]
              /\ \A z \in Zones : p.truth[z].epoch <= source'[z].epoch
              /\ data' # NoBinding /\ data'.ref = p.base[1] =>
                     \A z \in Zones : data'.rows[z].epoch <= p.truth[z].epoch
    BY <1>2, <1>13, <2>1, <2>2, <2>4
  <2> QED
    BY <1>2, <2>6, <2>7, <2>8, Zenon DEF Offered
<1> QED
  BY <1>11, <1>12, <1>14, <1>15, <1>16, <1>17, <1>18 DEF IInv, Sound

(* The write raises or is cancelled: nothing is vouched for any more.          *)
LEMMA SaveFailsStep ==
    ASSUME ReferenceConstants, IInv, SaveFails
    PROVE  IInv'
<1>1. /\ Shape /\ Closing(queue) /\ Kept /\ Fitting(source, meter)
  BY DEF IInv, Sound
<1>2. /\ disk' \in {disk, target} /\ manager' = "failed" /\ doubt' = nextRef
      /\ holder' = NoOp /\ target' = NoBinding
      /\ UNCHANGED <<listening, data, tokens, queue, nextRef, sending, source, meter, latched>>
  BY DEF SaveFails, worldVars
<1>3. Changes' = Changes
  BY <1>2 DEF Changes
<1>4. {data', disk', target'} \ {NoBinding} \subseteq {data, disk, target} \ {NoBinding}
  BY <1>2
<1>5. Shape'
  <2>1. nextRef \in Int /\ nextRef \in 1..nextRef
    BY <1>1 DEF Shape, TypeOK, ReferenceConstants
  <2>2. TypeOK'
    BY <1>1, <1>2, <2>1 DEF Shape, TypeOK
  <2> QED
    BY <1>1, <1>2, <1>3, <1>4, <2>2 DEF Shape
<1>6. Closing(queue)' /\ Writing' /\ Reviewed' /\ Offered(queue, source)'
  BY <1>1, <1>2 DEF Closing, Writing, Reviewed, Offered
<1>7. Kept' /\ Fitting(source, meter)'
  BY <1>1, <1>2, <1>3, <1>4 DEF Kept, Fitting
<1>8. Heard(queue, source)'
  <2>1. PICK b : b = disk'
    OBVIOUS
  <2>2. b # NoBinding => b.ref < nextRef /\ b.ref \in Int
    <3>1. b # NoBinding => b \in {data, disk, target} \ {NoBinding}
      BY <1>4, <2>1
    <3> QED
      BY <1>1, <3>1, BindingsAreTyped
  <2>3. nextRef \in Int
    BY <1>1 DEF Shape, TypeOK, ReferenceConstants
  <2> QED
    BY <1>2, <2>1, <2>2, <2>3 DEF Heard, Follows
<1> QED
  BY <1>5, <1>6, <1>7, <1>8 DEF IInv, Sound

(* The manager is closed: at once, or when those that wait have had the lock.  *)
LEMMA CloseStep ==
    ASSUME ReferenceConstants, IInv, Close
    PROVE  IInv'
<1>1. /\ Shape /\ Sound(queue, source, meter)
      /\ queue \in Seq(Operations) /\ source \in [Zones -> Samples]
  BY DEF IInv, Shape, TypeOK
<1>2. /\ listening /\ listening' = FALSE
      /\ UNCHANGED <<data, disk, holder, target, nextRef, sending, source, meter, doubt, latched>>
  BY DEF Close, worldVars, ghostVars
<1>3. CASE holder = NoOp /\ queue = <<>>
  <2>1. manager' = "closed" /\ tokens' = {} /\ queue' = queue
    BY <1>3 DEF Close
  <2>2. Shape'
    BY <1>1, <1>2, <2>1 DEF Shape, TypeOK, Changes
  <2>3. PICK q, s, m : q = queue /\ s = source /\ m = meter
    OBVIOUS
  <2>4. \A i \in DOMAIN q : q[i].op # "observe"
    BY <1>3, <2>3
  <2>5. Sound(queue, source, meter)'
    BY <1>1, <1>2, <1>3, <2>1, <2>3, <2>4, RunClose
  <2> QED
    BY <2>2, <2>5 DEF IInv
<1>4. CASE ~(holder = NoOp /\ queue = <<>>)
  <2>1. PICK op : op = [op |-> "close"]
    OBVIOUS
  <2>2. queue' = Append(queue, op) /\ UNCHANGED <<manager, tokens>>
    BY <1>4, <2>1 DEF Close
  <2>3. op \in Operations /\ op.op = "close"
    BY <2>1 DEF Operations, Requests
  <2>4. PICK q, s, m : q = Append(queue, op) /\ s = source /\ m = meter
    OBVIOUS
  <2>5. /\ q \in Seq(Operations) /\ Len(q) = Len(queue) + 1 /\ Len(queue) \in Nat
        /\ DOMAIN queue = 1..Len(queue) /\ DOMAIN q = 1..(Len(queue) + 1)
        /\ \A i \in DOMAIN queue : q[i] = queue[i]
        /\ q[Len(queue) + 1] = op
    BY <1>1, <2>3, <2>4, Appended
  <2>6. Changes' = Changes /\ InForce' = InForce
    BY <1>2, <2>2 DEF Changes, InForce
  <2>7. Shape'
    <3>1. Len(q) <= MaxQueue + 1
      BY <1>1, <1>2, <2>5 DEF Shape, ReferenceConstants
    <3>2. TypeOK'
      BY <1>1, <1>2, <2>2, <2>4, <3>1 DEF Shape, TypeOK
    <3> QED
      BY <1>1, <1>2, <2>2, <2>4, <2>5, <2>6, <3>2 DEF Shape
  <2>8. /\ Closing(queue) /\ Writing /\ Reviewed /\ Kept /\ Heard(queue, s) /\ Fitting(s, m)
        /\ Offered(queue, s)
    BY <1>1, <2>4 DEF Sound
  <2>9. Heard(q, s) /\ Offered(q, s)
    <3>1. Sensed(op, s, s)
      BY <2>3 DEF Sensed
    <3>2. \A z \in Zones : s[z].epoch >= s[z].epoch
      BY <1>1, <2>4 DEF Samples, ReferenceConstants
    <3>3. Heard(q, s)
      BY <1>1, <2>3, <2>4, <2>8, <3>1, HeardAppended
    <3>4. Offered(q, s)
      BY <1>1, <2>3, <2>4, <2>8, <3>2, OffersAreTyped, OfferedAppended
    <3> QED
      BY <3>3, <3>4
  <2>10. Closing(queue)'
    <3>1. \A i \in DOMAIN queue : queue[i].op # "close"
      BY <1>2, <2>8 DEF Closing
    <3>2. \A i, j \in DOMAIN q : i < j => q[i].op # "close"
      BY <2>5, <3>1
    <3> QED
      BY <1>2, <2>2, <2>4, <2>8, <3>2 DEF Closing
  <2>11. Writing' /\ Reviewed' /\ Kept'
    BY <1>2, <2>2, <2>6, <2>8 DEF Writing, Reviewed, Kept, Faultless
  <2>12. Fitting(source, meter)'
    BY <1>2, <2>4, <2>6, <2>8 DEF Fitting
  <2>13. Heard(queue, source)'
    BY <1>2, <2>2, <2>4, <2>6, <2>9 DEF Heard, Follows
  <2>14. Offered(queue, source)'
    BY <1>2, <2>2, <2>4, <2>6, <2>9
       DEF Offered, Offers, Asked, Vouched, Truthful, Moot, Refusable, Faultless
  <2> QED
    BY <2>7, <2>10, <2>11, <2>12, <2>13, <2>14 DEF IInv, Sound
<1> QED
  BY <1>3, <1>4

(* Home Assistant stops dead: what waited is lost, and the references so far   *)
(* are vouched for only if nothing did.                                        *)
LEMMA CrashStep ==
    ASSUME ReferenceConstants, IInv, Crash
    PROVE  IInv'
<1>1. /\ Shape /\ Closing(queue) /\ Kept /\ Heard(queue, source) /\ Fitting(source, meter)
  BY DEF IInv, Sound
<1>2. /\ manager' = "closed" /\ listening' = FALSE
      /\ disk' \in {disk, target} /\ (holder = NoOp => disk' = disk)
      /\ doubt' = IF holder = NoOp /\ queue = <<>> THEN doubt ELSE nextRef
      /\ data' = NoBinding /\ tokens' = {} /\ sending' = NoToken
      /\ queue' = <<>> /\ holder' = NoOp /\ target' = NoBinding
      /\ UNCHANGED <<nextRef, source, meter, latched>>
  BY DEF Crash, worldVars
<1>3. Changes' = {}
  BY <1>2 DEF Changes
<1>4. {data', disk', target'} \ {NoBinding} \subseteq {data, disk, target} \ {NoBinding}
  BY <1>2
<1>5. nextRef \in Int /\ nextRef \in 1..nextRef
  BY <1>1 DEF Shape, TypeOK, ReferenceConstants
<1>6. Shape'
  <2>1. doubt' \in 1..nextRef
    BY <1>1, <1>2, <1>5 DEF Shape, TypeOK
  <2>2. Len(queue') <= MaxQueue + 1 /\ Len(queue') <= MaxQueue /\ queue' \in Seq(Operations)
    BY <1>2 DEF ReferenceConstants
  <2>3. TypeOK'
    BY <1>1, <1>2, <2>1, <2>2 DEF Shape, TypeOK
  <2> QED
    BY <1>1, <1>2, <1>3, <1>4, <2>2, <2>3 DEF Shape
<1>7. Closing(queue)' /\ Writing' /\ Reviewed' /\ Offered(queue, source)'
  BY <1>2 DEF Closing, Writing, Reviewed, Offered
<1>8. Kept' /\ Fitting(source, meter)'
  BY <1>1, <1>2, <1>3, <1>4 DEF Kept, Fitting
<1>9. Heard(queue, source)'
  <2>1. CASE holder = NoOp /\ queue = <<>>
    <3>1. disk # NoBinding => Follows(disk, <<>>, source)
      <4>1. CASE manager = "open"
        BY <1>1, <2>1, <4>1 DEF Heard, Closing
      <4>2. CASE manager # "open"
        BY <1>1, <4>2 DEF Heard
      <4> QED
        BY <4>1, <4>2
    <3> QED
      BY <1>2, <2>1, <3>1 DEF Heard, Follows
  <2>2. CASE ~(holder = NoOp /\ queue = <<>>)
    <3>1. PICK b : b = disk'
      OBVIOUS
    <3>2. b # NoBinding => b.ref < nextRef /\ b.ref \in Int
      <4>1. b # NoBinding => b \in {data, disk, target} \ {NoBinding}
        BY <1>4, <3>1
      <4> QED
        BY <1>1, <4>1, BindingsAreTyped
    <3> QED
      BY <1>2, <1>5, <2>2, <3>1, <3>2 DEF Heard, Follows
  <2> QED
    BY <2>1, <2>2
<1> QED
  BY <1>6, <1>7, <1>8, <1>9 DEF IInv, Sound

(* A new manager has what the file holds, or cannot read it.                   *)
LEMMA SetUpStep ==
    ASSUME ReferenceConstants, IInv, SetUp
    PROVE  IInv'
<1>1. /\ Shape /\ Closing(queue) /\ Kept /\ Heard(queue, source) /\ Fitting(source, meter)
      /\ manager = "closed"
  BY DEF IInv, Sound, SetUp
<1>2. /\ \/ manager' = "open" /\ listening' = TRUE /\ data' = disk
         \/ manager' = "failed" /\ listening' = FALSE /\ data' = NoBinding
      /\ tokens' = {} /\ queue' = <<>> /\ sending' = NoToken
      /\ holder = NoOp /\ target = NoBinding
      /\ UNCHANGED <<disk, holder, target, nextRef, source, meter, doubt, latched>>
  BY <1>1 DEF SetUp, worldVars, ghostVars, Closing
<1>3. Changes' = {}
  BY <1>2 DEF Changes
<1>4. {data', disk', target'} \ {NoBinding} \subseteq {data, disk, target} \ {NoBinding}
  BY <1>2
<1>5. Shape'
  <2>1. Len(queue') <= MaxQueue + 1 /\ Len(queue') <= MaxQueue /\ queue' \in Seq(Operations)
    BY <1>2 DEF ReferenceConstants
  <2>2. TypeOK'
    BY <1>1, <1>2, <2>1 DEF Shape, TypeOK
  <2> QED
    BY <1>1, <1>2, <1>3, <1>4, <2>1, <2>2 DEF Shape
<1>6. Closing(queue)' /\ Writing' /\ Reviewed'
  BY <1>2, <1>3 DEF Closing, Writing, Reviewed
<1>7. Kept' /\ Fitting(source, meter)'
  BY <1>1, <1>2, <1>3, <1>4 DEF Kept, Fitting
<1>8. Heard(queue, source)'
  <2>1. disk # NoBinding => Follows(disk, <<>>, source)
    BY <1>1 DEF Heard
  <2> QED
    BY <1>2, <1>3, <2>1 DEF Heard, Follows
<1>9. Offered(queue, source)'
  <2>1. Offers(queue)' = {}
    BY <1>2 DEF Offers
  <2> QED
    BY <1>2, <2>1 DEF Offered
<1> QED
  BY <1>5, <1>6, <1>7, <1>8, <1>9 DEF IInv, Sound

(* At first there is no reference.                                             *)
LEMMA InitStep ==
    ASSUME ReferenceConstants, Init
    PROVE  IInv
<1>1. Changes = {} /\ Offers(queue) = {} /\ queue = <<>> /\ data = NoBinding
      /\ disk = NoBinding /\ target = NoBinding /\ holder = NoOp /\ latched = {}
  BY DEF Init, Changes, Offers
<1>2. Shape
  <2>1. Len(queue) <= MaxQueue + 1 /\ Len(queue) <= MaxQueue /\ queue \in Seq(Operations)
    BY <1>1 DEF ReferenceConstants
  <2>2. nextRef \in 1..(MaxRefs + 1) /\ doubt \in 1..nextRef /\ meter \in [Zones -> 0..MaxMeter]
    BY DEF Init, ReferenceConstants
  <2>3. source \in [Zones -> Samples]
    BY DEF Init
  <2>4. TypeOK
    BY <1>1, <2>1, <2>2, <2>3 DEF TypeOK, Init
  <2> QED
    BY <1>1, <2>1, <2>4 DEF Shape
<1>3. Closing(queue) /\ Writing /\ Reviewed /\ Kept /\ Fitting(source, meter)
  BY <1>1 DEF Closing, Writing, Reviewed, Kept, Fitting, Init
<1>4. Heard(queue, source) /\ Offered(queue, source)
  BY <1>1 DEF Heard, Offered, Init
<1> QED
  BY <1>2, <1>3, <1>4 DEF IInv, Sound

LEMMA NextStep ==
    ASSUME ReferenceConstants, IInv, [Next]_vars
    PROVE  IInv'
<1> USE DEF programVars, lockVars, worldVars, ghostVars
<1>1. CASE Ask
  BY <1>1, AskStep
<1>2. CASE ExpireToken \/ Send \/ Abandon \/ UNCHANGED vars
  <2>1. /\ tokens' \subseteq tokens /\ sending' \in {sending, NoToken}
        /\ UNCHANGED <<manager, listening, data, disk, queue, holder, target, nextRef,
                       source, meter, doubt, latched>>
    BY <1>2 DEF ExpireToken, Send, Abandon, vars
  <2> QED
    BY <2>1, ForgettingStep
<1>3. CASE Sensors
  BY <1>3, SensorsStep
<1>4. CASE Close \/ SetUp \/ Crash
  BY <1>4, CloseStep, SetUpStep, CrashStep
<1>5. CASE Proceed
  BY <1>5, RunNextStep, SaveReturnsStep, SaveFailsStep DEF Proceed
<1> QED
  BY <1>1, <1>2, <1>3, <1>4, <1>5 DEF Next

-------------------------------------------------------------------------------
(* What the invariant is for.                                                  *)

LEMMA Invariance ==
    ASSUME ReferenceConstants
    PROVE  Spec => []IInv
<1>1. Init => IInv
  BY InitStep
<1>2. IInv /\ [Next]_vars => IInv'
  BY NextStep
<1> QED
  BY <1>1, <1>2, PTL DEF Spec

(* A row of the reference in force that is of an earlier epoch than its sensor *)
(* is being marked, or the sensor's epoch has been reported.                   *)
LEMMA ReportWaits ==
    ASSUME ReferenceConstants, IInv, manager = "open", data # NoBinding, data.ref >= doubt,
           NEW z \in Zones, data.rows[z].fault = "none", data.rows[z].epoch < source[z].epoch,
           NEW epoch \in Int, epoch < source[z].epoch
    PROVE  Waits(z, epoch)
<1>1. /\ Closing(queue) /\ Writing /\ Heard(queue, source)
  BY DEF IInv, Sound
<1>2. ASSUME NEW binding, Follows(binding, queue, source), binding.ref = data.ref,
             binding.rows[z].fault = "none", binding.rows[z].epoch = data.rows[z].epoch
      PROVE  Waits(z, epoch)
  <2>1. Followed(binding.rows[z], z, queue, source[z])
    BY <1>2 DEF Follows
  <2>2. PICK j \in DOMAIN queue : Reported(queue, j, z) /\ queue[j].sample.epoch = source[z].epoch
    BY <1>2, <2>1 DEF Followed
  <2>3. queue[j].sample.epoch > epoch
    BY <2>2
  <2> QED
    BY <2>2, <2>3 DEF Waits, Reported
<1>3. CASE target = NoBinding \/ target.ref # data.ref
  <2>1. Follows(data, queue, source)
    BY <1>1, <1>3 DEF Heard
  <2> QED
    BY <1>2, <2>1
<1>4. CASE target # NoBinding /\ target.ref = data.ref
  <2>1. holder # NoOp /\ target.rows[z].epoch = data.rows[z].epoch
    BY <1>1, <1>4 DEF Closing, Writing
  <2>2. CASE target.rows[z].fault # "none"
    BY <1>4, <2>1, <2>2 DEF Waits
  <2>3. CASE target.rows[z].fault = "none"
    <3>1. Follows(target, queue, source)
      BY <1>1, <1>4 DEF Heard
    <3> QED
      BY <1>2, <1>4, <2>1, <2>3, <3>1
  <2> QED
    BY <2>2, <2>3
<1> QED
  BY <1>3, <1>4

(* A fault that was saved once stays with its reference, in memory and in the  *)
(* file, for any number of zones, references and operations that wait: no view, *)
(* report, capture, failed write, stop or restart lifts it (_track and _save   *)
(* of account_energy.py).                                                      *)
THEOREM ResetsAreKept ==
    ASSUME ReferenceConstants
    PROVE  Spec => []ResetsStay
<1>1. IInv => ResetsStay
  BY DEF IInv, Sound, Kept, ResetsStay
<1> QED
  BY <1>1, Invariance, PTL

(* TypeOK, and: while the manager works, a reset or a replacement of a sensor  *)
(* whose report was not lost is marked in the reference in force, or its       *)
(* report waits for the lock or is being written (observe, _view and _persist  *)
(* of account_energy.py), however many later reports look plausible again.     *)
THEOREM NoneIsForgotten ==
    ASSUME ReferenceConstants
    PROVE  Spec => []NeverSilentlyRepaired
<1>1. IInv => NeverSilentlyRepaired
  <2>1. SUFFICES ASSUME IInv PROVE NeverSilentlyRepaired
    OBVIOUS
  <2>2. TypeOK
    BY <2>1 DEF IInv, Shape
  <2>3. ASSUME manager = "open", NEW z \in Zones, Broken(z)
        PROVE  Waits(z, data.rows[z].epoch)
    <3>1. data # NoBinding /\ data \in Bindings
      BY <2>2, <2>3 DEF Broken, TypeOK
    <3>2. data.rows[z] \in Rows
      BY <3>1 DEF Bindings
    <3>3. data.rows[z].epoch \in Int
      BY <3>2 DEF Rows, ReferenceConstants
    <3> QED
      BY <2>1, <2>3, <3>1, <3>3, ReportWaits DEF Broken
  <2> QED
    BY <2>2, <2>3 DEF NeverSilentlyRepaired
<1> QED
  BY <1>1, Invariance, PTL

(* The proposal that guard_proposal of account_energy.py lets through says     *)
(* what the official meter showed when it was made, and no sensor was reset or *)
(* replaced since unless the report of that still waits, although the guard    *)
(* does not take the lock.  References that missed a report are excepted.      *)
THEOREM WhatIsSentIsTrue ==
    ASSUME ReferenceConstants
    PROVE  Spec => SendsTruth
<1>1. ASSUME IInv, Next PROVE SendsTruly
  <2>1. SUFFICES ASSUME Send, ~(sending.base[1] < doubt), NEW z \in Zones
                 PROVE  /\ sending.readings[z] = sending.truth[z].meter
                        /\ \/ sending.truth[z].epoch = source[z].epoch
                           \/ Waits(z, sending.truth[z].epoch)
    BY DEF SendsTruly
  <2>2. /\ sending # NoToken /\ manager = "open" /\ sending \in tokens
        /\ sending.kind = "proposal" /\ sending.base = Revision(data)
    BY <2>1 DEF Send, Guard, Live
  <2>3. TypeOK /\ Offered(queue, source) /\ queue \in Seq(Operations) /\ Shape
    BY <1>1 DEF IInv, Sound, Shape
  <2>4. sending \in Tokens /\ sending \in Offers(queue)
    BY <2>2, <2>3 DEF TypeOK, Offers
  <2>5. /\ 0 < sending.base[1] /\ sending.base[2] = {}
        /\ sending.truth[z].epoch <= source[z].epoch
        /\ data # NoBinding /\ data.ref = sending.base[1] =>
              data.rows[z].epoch <= sending.truth[z].epoch
        /\ Vouched(sending)
    BY <2>2, <2>3, <2>4 DEF Offered
  <2>6. data # NoBinding /\ data \in Bindings
    BY <2>2, <2>3, <2>5 DEF Revision, TypeOK
  <2>7. data.ref = sending.base[1] /\ data.rows[z].fault = "none"
    BY <2>2, <2>5, <2>6 DEF Revision
  <2>8. sending.readings[z] = sending.truth[z].meter
    BY <2>1, <2>5 DEF Vouched, Truthful
  <2>9. sending.truth[z].epoch \in Int /\ source[z].epoch \in Int /\ data.rows[z].epoch \in Int
    <3>1. source[z] \in Samples /\ data.rows[z] \in Rows
      BY <2>3, <2>6 DEF TypeOK, Bindings
    <3> QED
      BY <2>4, <3>1 DEF Tokens, Samples, Rows, ReferenceConstants
  <2>10. data.ref >= doubt
    <3>1. data.ref \in Int /\ doubt \in Int
      BY <2>3, <2>6 DEF TypeOK, Bindings, ReferenceConstants
    <3> QED
      BY <2>1, <2>7, <3>1
  <2>11. CASE sending.truth[z].epoch = source[z].epoch
    BY <2>8, <2>11
  <2>12. CASE sending.truth[z].epoch # source[z].epoch
    <3>1. sending.truth[z].epoch < source[z].epoch /\ data.rows[z].epoch < source[z].epoch
      BY <2>5, <2>6, <2>7, <2>9, <2>12
    <3>2. Waits(z, sending.truth[z].epoch)
      BY <1>1, <2>2, <2>6, <2>7, <2>9, <2>10, <3>1, ReportWaits
    <3> QED
      BY <2>8, <3>2
  <2> QED
    BY <2>11, <2>12
<1>2. IInv /\ [Next]_vars => [SendsTruly]_vars
  BY <1>1, Zenon
<1> QED
  BY <1>2, Invariance, PTL DEF Spec, SendsTruth
===============================================================================
