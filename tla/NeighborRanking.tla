-------------------------- MODULE NeighborRanking --------------------------
(***************************************************************************)
(* Ranking of neighbor connections (src/net/prune.rs).                     *)
(*                                                                         *)
(* A connection's NeighborStats are abstracted to the two fields the       *)
(* pruner reads: first_contact_time (epoch seconds) and the health score   *)
(* (a level from a small set of integers).  The comparator is translated   *)
(* as written, and the standard library's slice::sort_by, which the        *)
(* pruners call on lists of at most 20 elements, is its insertion sort.    *)
(***************************************************************************)
EXTENDS Naturals, Sequences

\* max(0, round(log2(uptime))) of compare_neighbor_uptime_health.  For an
\* integer u >= 2, round(log2 u) = k iff 2^(2k-1) <= u*u < 2^(2k+1); the
\* half-way point u = 2^k * sqrt(2) is irrational, so rounding never ties.
\* log2(0) = -inf and log2(1) = 0 are both clamped to bucket 0.
UptimeBucket(uptime) ==
    IF uptime <= 1 THEN 0
    ELSE CHOOSE k \in 1..uptime :
            /\ 2^(2 * k - 1) <= uptime * uptime
            /\ uptime * uptime < 2^(2 * k + 1)

\* The bucket of now - first_contact_time, a u64 subtraction.  If the wall
\* clock has stepped back below a connection's first contact, a debug build
\* panics on the overflow and a release build wraps to 2^64 - d, which
\* "as f64" rounds to 2^64 (d < 2^10), whose log2 rounds to 64: the model
\* is of the release build.
ElapsedBucket(now, first_contact_time) ==
    IF first_contact_time <= now THEN UptimeBucket(now - first_contact_time)
    ELSE 64

\* compare_neighbor_uptime_health(stats1, stats2) = Ordering::Less, as the
\* code computes it, with now the get_epoch_time_secs() of this call: the
\* Greater test compares uptime_bucket_1 with itself, so a pair whose first
\* element is in the higher bucket falls through to the health comparison.
CompareUptimeHealthLess(now, stats1, stats2) ==
    LET bucket1 == ElapsedBucket(now, stats1.first_contact_time)
        bucket2 == ElapsedBucket(now, stats2.first_contact_time)
    IN \/ bucket1 < bucket2
       \/ /\ ~(bucket1 > bucket1)
          /\ stats1.health < stats2.health

\* The ranking the comparator is documented to compute: younger bucket
\* first, then lower health first.  A connection first contacted after now
\* has no uptime yet: bucket 0.
RankLess(now, stats1, stats2) ==
    LET bucket1 == UptimeBucket(now - stats1.first_contact_time)
        bucket2 == UptimeBucket(now - stats2.first_contact_time)
    IN \/ bucket1 < bucket2
       \/ /\ bucket1 = bucket2
          /\ stats1.health < stats2.health

\* The "is less" relation that sort_by derives from the comparator of line
\* 205, over the keys ks whose cloned stats are stats[k].
UptimeHealthLt(now, stats, ks) ==
    {p \in ks \X ks : CompareUptimeHealthLess(now, stats[p[1]], stats[p[2]])}

\* The comparator of lines 310-320: older first_contact_time first.
FirstContactLt(stats, ks) ==
    {p \in ks \X ks : stats[p[1]].first_contact_time < stats[p[2]].first_contact_time}

(***************************************************************************)
(* slice::sort_by with a comparator that may answer differently from one  *)
(* call to the next (line 205's reads the clock on every call): lts[c] is *)
(* the "is less" relation of the c-th call, and each operator returns the *)
(* sorted list with the number of calls made so far.                      *)
(***************************************************************************)
RECURSIVE InsertHeadAt(_, _, _, _)

\* insert_head of the standard library's stable sort: x moves right past
\* every leading element of the sorted s that is less than x, one call of
\* is_less per element looked at.
InsertHeadAt(x, s, lts, c) ==
    IF s # <<>> /\ <<s[1], x>> \in lts[c + 1]
    THEN LET r == InsertHeadAt(x, Tail(s), lts, c + 1)
         IN [out |-> <<s[1]>> \o r.out, calls |-> r.calls]
    ELSE [out |-> <<x>> \o s, calls |-> IF s = <<>> THEN c ELSE c + 1]

\* slice::sort_by on at most 20 elements: insert_head of v[i..] for i from
\* len-2 down to 0, i.e. each element inserted into the sorted rest.
RECURSIVE SortByAt(_, _, _)
SortByAt(s, lts, c) ==
    IF Len(s) <= 1 THEN [out |-> s, calls |-> c]
    ELSE LET r == SortByAt(Tail(s), lts, c)
         IN InsertHeadAt(Head(s), r.out, lts, r.calls)

\* At most this many comparator calls sort a list of n elements.
MaxCalls(n) == (n * (n - 1)) \div 2

\* sort_by with a comparator that answers the same on every call.
SortBy(s, lt) == SortByAt(s, [c \in 1..MaxCalls(Len(s)) |-> lt], 0).out

=============================================================================
