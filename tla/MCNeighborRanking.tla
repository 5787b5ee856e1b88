------------------------- MODULE MCNeighborRanking -------------------------
(***************************************************************************)
(* Checks the comparator of line 205, over every list of Keys in every    *)
(* input order and every assignment of stats, against spec 4.1 when the   *)
(* clock ticks during a sort (tick) or has stepped back behind a first    *)
(* contact (SpecClockBack).                                                *)
(***************************************************************************)
EXTENDS NeighborRanking, FiniteSets, SequencesExt

CONSTANTS Keys, MaxTime, HealthScores

VARIABLES
    now,    \* get_epoch_time_secs() at the sort's first comparator call
    stats,  \* the cloned stats of each connection
    order,  \* the order the HashMap hands the connections out in
    tick    \* the first comparator call that reads now + 1

vars == <<now, stats, order, tick>>

Stats == [first_contact_time : 0..MaxTime, health : HealthScores]

Calls == MaxCalls(Cardinality(Keys))

Init ==
    /\ now \in 0..MaxTime
    /\ stats \in [Keys -> {s \in Stats : s.first_contact_time <= now}]
    /\ order \in SetToSeqs(Keys)
    /\ tick \in 1..Calls + 1

\* The wall clock has been set back: a first contact may lie after now.
InitClockBack ==
    /\ now \in 0..MaxTime
    /\ stats \in [Keys -> Stats]
    /\ order \in SetToSeqs(Keys)
    /\ tick = Calls + 1

\* The inputs are fixed; each state is one test case.
Next == UNCHANGED vars

Spec == Init /\ [][Next]_vars

SpecClockBack == InitClockBack /\ [][Next]_vars

\* The comparator of line 205 as sort_by calls it, the clock reading now
\* before call tick and now + 1 from it on.
TickedLts == [c \in 1..Calls |-> UptimeHealthLt(IF c < tick THEN now ELSE now + 1,
                                                 stats, Keys)]

\* Spec 4.1: a connection first contacted earlier (older) than another of
\* the same health never sorts before it -- whatever the wall clock reads
\* when compare_neighbor_uptime_health computes now - first_contact_time.
OlderNeverRanksFirst ==
    \A k1, k2 \in Keys :
       /\ stats[k1].first_contact_time < stats[k2].first_contact_time
       /\ stats[k1].health = stats[k2].health
       => ~CompareUptimeHealthLess(now, stats[k1], stats[k2])

\* Spec 4.1 computes every uptime against one now: the connection that
\* sort_by with the comparator of line 205 puts at index 0 -- the one the
\* org trim of lines 221-241 and the sampler evict first -- is the one the
\* same call would put there had get_epoch_time_secs() read a single value,
\* now or now + 1, on all its comparator calls, even when the second
\* changes between two of them.
SortedHeadAsAtOneReading ==
    SortByAt(order, TickedLts, 0).out[1]
       \in {SortBy(order, UptimeHealthLt(t, stats, Keys))[1] : t \in {now, now + 1}}

=============================================================================
