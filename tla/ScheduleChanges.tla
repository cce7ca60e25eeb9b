---------------------------- MODULE ScheduleChanges ----------------------------
(* schedule_changes.py: what a newly verified schedule changes for a listener *)
(* who knows the previous ones.  A record has the time ranges it verifies for *)
(* each group ("coverage") and the outages in them ("intervals"); a range is  *)
(* half open, <<start, end>>.  The sorted lists of the code are sets here.    *)
EXTENDS Integers, FiniteSets, FiniteSetsExt

CONSTANTS Groups, NoSchedule

Kinds == {"outage", "possible"}

(* One range absorbs those it overlaps or touches, as in the loop of _ranges  *)
(* over the sorted list.                                                      *)
Absorb(range, merged) ==
    LET met == {m \in merged : m[1] <= range[2] /\ range[1] <= m[2]} \cup {range}
    IN  (merged \ met) \cup {<<Min({m[1] : m \in met}), Max({m[2] : m \in met})>>}

(* _ranges: what is left of the ranges at an instant, merged.                 *)
Ranges(ranges, now) ==
    FoldSet(Absorb, {}, {<<Max({r[1], now}), r[2]>> : r \in {x \in ranges : x[2] > now}})

Meet(one, other) == <<Max({one[1], other[1]}), Min({one[2], other[2]})>>
Overlap(one, other) == one[1] < other[2] /\ other[1] < one[2]

Common(these, those) ==
    {Meet(p[1], p[2]) : p \in {q \in these \X those : Overlap(q[1], q[2])}}

Covered(record, group) == {c.range : c \in {x \in record.coverage : x.group = group}}
CoveredGroups(record)  == {c.group : c \in record.coverage}

Outages(record, group, kind) ==
    {i.range : i \in {x \in record.intervals : x.group = group /\ x.kind = kind}}

(* _within: both versions are compared on the same verified ranges.           *)
Within(record, group, coverage, now) ==
    [kind \in Kinds |-> Ranges(Common(Outages(record, group, kind), coverage), now)]

ChangedGroupsLosingDays(previous, current, now) ==                 \* mutated
    IF NoSchedule \in {previous, current} THEN {}
    ELSE {group \in CoveredGroups(previous) \cap CoveredGroups(current) :
            LET old == Ranges(Covered(previous, group), now)
                new == Ranges(Covered(current, group), now)
            IN  new # old \/ Within(previous, group, old, now) # Within(current, group, new, now)}

(* changed_groups: a date verified for the first time counts, a lost one and  *)
(* what has elapsed do not.                                                   *)
ChangedGroups(previous, current, now) ==
    IF NoSchedule \in {previous, current} THEN {}
    ELSE {group \in CoveredGroups(previous) \cap CoveredGroups(current) :
            LET old == Ranges(Covered(previous, group), now)
                new == Ranges(Covered(current, group), now)
                common == Ranges(Common(old, new), now)
            IN  /\ new # {}
                /\ \/ common # new
                   \/ Within(previous, group, common, now) # Within(current, group, common, now)}

CutUnchecked(coverage, intervals) ==                               \* mutated
    LET met == {i \in intervals : i.group = coverage.group /\ Overlap(i.range, coverage.range)}
    IN  (intervals \ met) \cup {[i EXCEPT !.range = <<@[1], coverage.range[1]>>] : i \in met}
            \cup {[i EXCEPT !.range = <<coverage.range[2], @[2]>>] : i \in met}

(* What a newly verified range leaves of an old outage.                       *)
Cut(coverage, intervals) ==
    LET met == {i \in intervals : i.group = coverage.group /\ Overlap(i.range, coverage.range)}
        before == {[i EXCEPT !.range = <<@[1], coverage.range[1]>>] :
                      i \in {x \in met : x.range[1] < coverage.range[1]}}
        after == {[i EXCEPT !.range = <<coverage.range[2], @[2]>>] :
                      i \in {x \in met : x.range[2] > coverage.range[2]}}
    IN  (intervals \ met) \cup before \cup after

(* remember: days that are missing for a while stay known for comparison.     *)
Remember(previous, current, now) ==
    IF previous = NoSchedule THEN current
    ELSE LET groups    == CoveredGroups(current)
             coverage  == {c \in previous.coverage : c.range[2] > now /\ c.group \in groups}
                             \cup current.coverage
             intervals == {i \in FoldSet(Cut, {i \in previous.intervals : i.range[2] > now},
                                         current.coverage) : i.group \in groups}
                             \cup current.intervals
             all       == [coverage |-> coverage, intervals |-> intervals]
         IN  [coverage  |-> UNION {{[group |-> g, range |-> r] :
                                       r \in Ranges(Covered(all, g), now)} : g \in groups},
              intervals |-> UNION {{[group |-> g, kind |-> k, range |-> r] :
                                       r \in Ranges(Outages(all, g, k), now)} :
                                   g \in groups, k \in Kinds}]

-------------------------------------------------------------------------------
(* The same, instant by instant: what a record says of one.                   *)
At(record, group, instant) ==
    IF record # NoSchedule /\ \E r \in Covered(record, group) : r[1] <= instant /\ instant < r[2]
    THEN {k \in Kinds : \E r \in Outages(record, group, k) : r[1] <= instant /\ instant < r[2]}
    ELSE {"unverified"}
===============================================================================
