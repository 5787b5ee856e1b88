--------------------------- MODULE PruneFrontier ---------------------------
(***************************************************************************)
(* PeerNetwork::prune_frontier of src/net/prune.rs and the environment it  *)
(* runs in.                                                                *)
(*                                                                         *)
(* The connection table (events and peers of PeerNetwork) is one function  *)
(* from the neighbor keys with a live conversation to the fields of        *)
(* NeighborStats the pruner reads.  Event ids are in one-to-one            *)
(* correspondence with the live keys, so the preserve set is a set of      *)
(* keys.  Between passes the environment opens and closes connections,     *)
(* lets time pass and changes health scores.  A pass runs to completion    *)
(* without interruption (it is called synchronously from the single        *)
(* thread that owns the table), so while pc # "idle" only the pass's own   *)
(* steps are enabled; the steps are the iterations of its loops, so that   *)
(* the HashMap iteration orders and random draws of each are separate      *)
(* nondeterministic choices.                                               *)
(***************************************************************************)
EXTENDS NeighborRanking, WeightedSampler, Naturals, FiniteSets, SequencesExt

CONSTANTS
    Keys,                   \* neighbor keys (network id, addrbytes, port)
    Hosts,                  \* addrbytes
    HostOf,                 \* HostOf[k]: the addrbytes of key k
    Orgs,                   \* organization ids
    NotFound,               \* a peer with no peer DB record
    PeerOrg,                \* PeerOrg[k]: org of k's peer DB record, or NotFound
    HealthScores,           \* health score levels
    SoftNumNeighbors,       \* soft_num_neighbors
    SoftMaxNeighborsPerOrg, \* soft_max_neighbors_per_org
    SoftNumClients,         \* soft_num_clients
    SoftMaxClientsPerHost,  \* soft_max_clients_per_host
    MaxTime,                \* bound on the epoch clock
    MaxPasses               \* bound on the number of pruning passes

ASSUME \A k \in Keys : HostOf[k] \in Hosts
ASSUME NotFound \notin Orgs /\ \A k \in Keys : PeerOrg[k] \in Orgs \cup {NotFound}
ASSUME HealthScores \subseteq Nat /\ HealthScores # {}
ASSUME {SoftNumNeighbors, SoftMaxNeighborsPerOrg, SoftNumClients,
        SoftMaxClientsPerHost, MaxTime, MaxPasses} \subseteq Nat

VARIABLES
    peers,                  \* live connections: key -> [outbound, first_contact_time, health]
    now,                    \* get_epoch_time_secs()
    prune_inbound_counts,   \* key -> times pruned by IP (0 = absent)
    prune_outbound_counts,  \* key -> times pruned by org (0 = absent)
    passes,                 \* pruning passes completed
    pc,                     \* where the current pass is
    preserve,               \* the pass's preserve set
    pruned_by_ip,           \* keys prune_frontier_inbound_ip returned
    num_outbound,           \* num_outbound of prune_frontier_outbound_orgs
    db_error,               \* org_neighbor_distribution returned Err
    org_neighbors,          \* org -> sorted list of its remaining candidates
    orgs_todo,              \* orgs the hard-trim loop has not visited yet
    ret                     \* keys prune_frontier_outbound_orgs will return

env_vars  == <<peers, now>>
pass_vars == <<pc, preserve, pruned_by_ip, num_outbound, db_error,
               org_neighbors, orgs_todo, ret>>
vars == <<env_vars, prune_inbound_counts, prune_outbound_counts, passes, pass_vars>>

Stats == [outbound : BOOLEAN, first_contact_time : 0..MaxTime, health : HealthScores]

NoOrgNeighbors == [o \in Orgs |-> <<>>]

\* The orders in which iterating a HashMap can visit the keys S: any.
RECURSIVE IterationOrders(_)
IterationOrders(S) ==
    IF S = {} THEN {<<>>}
    ELSE UNION {{<<x>> \o r : r \in IterationOrders(S \ {x})} : x \in S}

\* Grouping the keys S by class[k] into per-class Vecs in iteration order
\* keeps the order of each class and nothing else, so the lists the grouping
\* can produce are the functions giving each class an order of its own.
GroupOrders(S, class, Classes) ==
    LET members(c) == {k \in S : class[k] = c}
    IN {f \in [Classes -> UNION {IterationOrders(members(c)) : c \in Classes}] :
           \A c \in Classes : ToSet(f[c]) = members(c)}

-----------------------------------------------------------------------------
(* Views of the connection table                                          *)

Live == DOMAIN peers

\* count_outbound_conversations(&self.peers)
NumOutbound == Cardinality({k \in Live : peers[k].outbound})

\* num_peers() - count_outbound_conversations(&self.peers)  (line 282)
NumInbound == Cardinality(Live) - NumOutbound

\* The connections each pruner classifies: not preserved, of its direction.
InboundCandidates(p)  == {k \in Live \ p : ~peers[k].outbound}
OutboundCandidates(p) == {k \in Live \ p : peers[k].outbound}

\* deregister_neighbor of every key in ks.
Deregister(ks) == [k \in Live \ ks |-> peers[k]]

\* Mutation of CountPrunes: a key's counter grows by the list's length.
CountPrunesByLength(counts, s) ==
    [k \in Keys |-> IF k \in ToSet(s) THEN counts[k] + Len(s) ELSE counts[k]]

\* Mutation of CountPrunes: the counter inserted at 1 whether or not the
\* key is already present.
CountPrunesResets(counts, s) ==
    [k \in Keys |-> IF k \in ToSet(s) THEN 1 ELSE counts[k]]

\* Counter map after inserting-or-incrementing once per occurrence in s.
CountPrunes(counts, s) ==
    [k \in Keys |-> counts[k] + Cardinality({i \in DOMAIN s : s[i] = k})]

-----------------------------------------------------------------------------
(* prune_frontier_inbound_ip (lines 281-335)                              *)

\* Mutation of HostNeighbors: the comparator reversed, newest first.
HostNeighborsNewestFirst(grouped, h) ==
    Reverse(SortBy(grouped[h], FirstContactLt(peers, Live)))

\* The connections of host h, in the order grouping them by addrbytes
\* visited them, sorted by first_contact_time (oldest first) as at lines
\* 309-321.
HostNeighbors(grouped, h) == SortBy(grouped[h], FirstContactLt(peers, Live))

\* The keys returned when the non-preserved inbound connections were
\* grouped into grouped (lines 287-306): every member of a host's sorted
\* list beyond index soft_max_clients_per_host (lines 323-331).
PruneFrontierInboundIp(grouped) ==
    IF NumInbound <= SoftNumClients THEN {}
    ELSE UNION {ToSet(SubSeq(HostNeighbors(grouped, h),
                             SoftMaxClientsPerHost + 1,
                             Len(HostNeighbors(grouped, h)))) : h \in Hosts}

\* A pass begins: the inbound pruner runs and each key it returns is
\* deregistered and counted (lines 360-377).
PruneInbound ==
    /\ pc = "idle"
    /\ passes < MaxPasses
    /\ \E p \in SUBSET Live :
       \* below soft_num_clients the grouping is never looked at
       \E grouped \in IF NumInbound <= SoftNumClients THEN {<<>>}
                      ELSE GroupOrders(InboundCandidates(p), HostOf, Hosts) :
          LET pruned == PruneFrontierInboundIp(grouped)
          IN /\ peers' = Deregister(pruned)
             /\ prune_inbound_counts' =
                   [k \in Keys |-> IF k \in pruned THEN prune_inbound_counts[k] + 1
                                                   ELSE prune_inbound_counts[k]]
             /\ preserve' = p
             /\ pruned_by_ip' = pruned
    /\ pc' = "outbound"
    /\ UNCHANGED <<now, prune_outbound_counts, passes, num_outbound, db_error,
                   org_neighbors, orgs_todo, ret>>

-----------------------------------------------------------------------------
(* prune_frontier_outbound_orgs (lines 185-276)                           *)

\* Fast path of lines 186-189: not over the outbound target.
OutboundBelowTarget ==
    /\ pc = "outbound"
    /\ NumOutbound <= SoftNumNeighbors
    /\ num_outbound' = NumOutbound
    /\ pc' = "deregOut"
    /\ UNCHANGED <<env_vars, prune_inbound_counts, prune_outbound_counts, passes,
                   preserve, pruned_by_ip, db_error, org_neighbors, orgs_todo, ret>>

\* org_neighbor_distribution fails on a peer DB lookup (lines 103-104); the
\* Err is mapped to an empty list by unwrap_or at line 379.
OrgDistributionFails ==
    /\ pc = "outbound"
    /\ NumOutbound > SoftNumNeighbors
    /\ OutboundCandidates(preserve) # {}
    /\ num_outbound' = NumOutbound
    /\ db_error' = TRUE
    /\ pc' = "deregOut"
    /\ UNCHANGED <<env_vars, prune_inbound_counts, prune_outbound_counts, passes,
                   preserve, pruned_by_ip, org_neighbors, orgs_todo, ret>>

\* The loop of lines 193-208: each org's list sorted by the comparator, on
\* clones of the stats taken when the distribution was built.
SortOrgNeighbors(grouped) ==
    [o \in Orgs |-> SortBy(grouped[o], UptimeHealthLt(now, peers, Live))]

\* Mutation of RecordOrg: a key with no peer DB record grouped under a
\* default org, as unwrap_or_default on the lookup would.
RecordOrgDefault(k) ==
    IF PeerOrg[k] = NotFound THEN CHOOSE o \in Orgs : TRUE ELSE PeerOrg[k]

\* The org get_peer's answer puts key k under (lines 103-111): its record's
\* org, or NotFound, which no org's list takes.
RecordOrg(k) == PeerOrg[k]

\* org_neighbor_distribution (lines 84-124): outbound, non-preserved keys
\* whose peer DB record exists are grouped by org, in the order the
\* iteration of self.events visits them; then each org's list is sorted.
OrgDistributionBuilt ==
    /\ pc = "outbound"
    /\ NumOutbound > SoftNumNeighbors
    /\ \E grouped \in GroupOrders(OutboundCandidates(preserve),
                                    [k \in Keys |-> RecordOrg(k)], Orgs) :
          org_neighbors' = SortOrgNeighbors(grouped)
    /\ orgs_todo' = {o \in Orgs : org_neighbors'[o] # <<>>}
    /\ num_outbound' = NumOutbound
    /\ pc' = "trim"
    /\ UNCHANGED <<env_vars, prune_inbound_counts, prune_outbound_counts, passes,
                   preserve, pruned_by_ip, db_error, ret>>

\* Mutation of TrimCount: the loop bound one short of the cap.
TrimCountStopsShort(len) ==
    LET over == len - SoftMaxNeighborsPerOrg
        need == num_outbound - Len(ret) - SoftNumNeighbors
    IN IF need < 1 THEN 1 ELSE IF need < over THEN need ELSE over - 1

\* Number of keys the loop of lines 217-228 pushes from a list of len > cap
\* entries: it pushes before it tests, and stops at the cap or once
\* num_outbound - ret.len() <= soft_num_neighbors.
TrimCount(len) ==
    LET over == len - SoftMaxNeighborsPerOrg
        need == num_outbound - Len(ret) - SoftNumNeighbors
    IN IF need < 1 THEN 1 ELSE IF need < over THEN need ELSE over

\* The keys ret holds after the hard-trim of org o.
TrimmedRet(o) == ret \o SubSeq(org_neighbors[o], 1, TrimCount(Len(org_neighbors[o])))

\* One iteration of the hard-trim loop (lines 212-235) on an org within the
\* per-org cap: nothing happens.
TrimOrgWithinCap ==
    /\ pc = "trim"
    /\ \E o \in orgs_todo :
          /\ Len(org_neighbors[o]) <= SoftMaxNeighborsPerOrg
          /\ orgs_todo' = orgs_todo \ {o}
    /\ UNCHANGED <<env_vars, prune_inbound_counts, prune_outbound_counts, passes,
                   pc, preserve, pruned_by_ip, num_outbound, db_error,
                   org_neighbors, ret>>

\* Mutation of TrimOrgOverCap: the pushed keys left in the org's list.
TrimOrgOverCapKeepsList ==
    /\ pc = "trim"
    /\ \E o \in orgs_todo :
          /\ Len(org_neighbors[o]) > SoftMaxNeighborsPerOrg
          /\ Len(TrimmedRet(o)) <= Len(org_neighbors[o])
          /\ ret' = TrimmedRet(o)
          /\ orgs_todo' = orgs_todo \ {o}
    /\ UNCHANGED <<env_vars, prune_inbound_counts, prune_outbound_counts, passes,
                   pc, preserve, pruned_by_ip, num_outbound, db_error, org_neighbors>>

\* ... on an org over the cap: the pushed prefix is appended to ret, then
\* ret.len() entries (the whole ret, not just this org's share) are removed
\* from the front of the org's list (lines 229-231).
TrimOrgOverCap ==
    /\ pc = "trim"
    /\ \E o \in orgs_todo :
          /\ Len(org_neighbors[o]) > SoftMaxNeighborsPerOrg
          /\ Len(TrimmedRet(o)) <= Len(org_neighbors[o])
          /\ ret' = TrimmedRet(o)
          /\ org_neighbors' = [org_neighbors EXCEPT ![o] =
                                  SubSeq(@, Len(TrimmedRet(o)) + 1, Len(@))]
          /\ orgs_todo' = orgs_todo \ {o}
    /\ UNCHANGED <<env_vars, prune_inbound_counts, prune_outbound_counts, passes,
                   pc, preserve, pruned_by_ip, num_outbound, db_error>>

\* ... when ret.len() exceeds the org's list: neighbor_infos.remove(0) on the
\* emptied Vec panics, which aborts the node.
TrimOrgPanics ==
    /\ pc = "trim"
    /\ \E o \in orgs_todo :
          /\ Len(org_neighbors[o]) > SoftMaxNeighborsPerOrg
          /\ Len(TrimmedRet(o)) > Len(org_neighbors[o])
    /\ pc' = "panicked"
    /\ UNCHANGED <<env_vars, prune_inbound_counts, prune_outbound_counts, passes,
                   preserve, pruned_by_ip, num_outbound, db_error,
                   org_neighbors, orgs_todo, ret>>

\* The hard-trim loop has visited every org.
TrimDone ==
    /\ pc = "trim"
    /\ orgs_todo = {}
    /\ pc' = "sample"
    /\ UNCHANGED <<env_vars, prune_inbound_counts, prune_outbound_counts, passes,
                   preserve, pruned_by_ip, num_outbound, db_error,
                   org_neighbors, orgs_todo, ret>>

\* weighted_sample of lines 246-251: orgs with remaining candidates.
WeightedOrgs == {o \in Orgs : org_neighbors[o] # <<>>}
OrgWeights   == [o \in WeightedOrgs |-> Len(org_neighbors[o])]

\* Mutation of SampleOrg: the sampled org's lookup misses and the None arm
\* of line 259 moves on instead of panicking: the iteration neither pops
\* nor pushes.
SampleOrgStalls ==
    /\ pc = "sample"
    /\ num_outbound - Len(ret) > SoftNumNeighbors
    /\ WeightedOrgs # {}
    /\ UNCHANGED vars

\* One iteration of the loop of lines 245-272: an org is sampled by
\* sample_org_by_neighbor_count (for some iteration order of weighted_sample
\* and some draw) and the head of its list is pruned.
SampleOrg ==
    /\ pc = "sample"
    /\ num_outbound - Len(ret) > SoftNumNeighbors
    /\ WeightedOrgs # {}
    /\ \E order \in IterationOrders(WeightedOrgs) :
       \E draw \in 0..TotalWeight(order, OrgWeights) - 1 :
          LET o == SampleOrgByNeighborCount(order, OrgWeights, draw)
          IN /\ ret' = Append(ret, Head(org_neighbors[o]))
             /\ org_neighbors' = [org_neighbors EXCEPT ![o] = Tail(@)]
    /\ UNCHANGED <<env_vars, prune_inbound_counts, prune_outbound_counts, passes,
                   pc, preserve, pruned_by_ip, num_outbound, db_error, orgs_todo>>

\* Mutation of SampleDone: the "pruned enough" tests of lines 237 and 245
\* one connection early.
SampleDoneOneEarly ==
    /\ pc = "sample"
    /\ \/ num_outbound - Len(ret) <= SoftNumNeighbors + 1
       \/ WeightedOrgs = {}
    /\ pc' = "deregOut"
    /\ UNCHANGED <<env_vars, prune_inbound_counts, prune_outbound_counts, passes,
                   preserve, pruned_by_ip, num_outbound, db_error,
                   org_neighbors, orgs_todo, ret>>

\* The loop ends, at the test of line 237 or 245 or the break of line 254.
SampleDone ==
    /\ pc = "sample"
    /\ \/ num_outbound - Len(ret) <= SoftNumNeighbors
       \/ WeightedOrgs = {}
    /\ pc' = "deregOut"
    /\ UNCHANGED <<env_vars, prune_inbound_counts, prune_outbound_counts, passes,
                   preserve, pruned_by_ip, num_outbound, db_error,
                   org_neighbors, orgs_todo, ret>>

\* Mutation of DeregisterOutbound: the inbound list deregistered again.
DeregisterOutboundByIp ==
    /\ pc = "deregOut"
    /\ peers' = Deregister(pruned_by_ip)
    /\ prune_outbound_counts' = CountPrunes(prune_outbound_counts, ret)
    /\ passes' = passes + 1
    /\ pc' = "idle"
    /\ preserve' = {}
    /\ pruned_by_ip' = {}
    /\ num_outbound' = 0
    /\ db_error' = FALSE
    /\ org_neighbors' = NoOrgNeighbors
    /\ ret' = <<>>
    /\ UNCHANGED <<now, prune_inbound_counts, orgs_todo>>

\* The pass ends: each key of pruned_by_org is deregistered and counted
\* (lines 379-396); the frontier dump that follows only logs.
DeregisterOutbound ==
    /\ pc = "deregOut"
    /\ peers' = Deregister(ToSet(ret))
    /\ prune_outbound_counts' = CountPrunes(prune_outbound_counts, ret)
    /\ passes' = passes + 1
    /\ pc' = "idle"
    /\ preserve' = {}
    /\ pruned_by_ip' = {}
    /\ num_outbound' = 0
    /\ db_error' = FALSE
    /\ org_neighbors' = NoOrgNeighbors
    /\ ret' = <<>>
    /\ UNCHANGED <<now, prune_inbound_counts, orgs_todo>>

-----------------------------------------------------------------------------
(* The environment, between passes                                         *)

\* A connection to or from key k is registered, first contacted now.
Connect ==
    /\ pc = "idle"
    /\ \E k \in Keys \ Live, outbound \in BOOLEAN, h \in HealthScores :
          peers' = peers @@ (k :> [outbound |-> outbound,
                                   first_contact_time |-> now, health |-> h])
    /\ UNCHANGED <<now, prune_inbound_counts, prune_outbound_counts, passes, pass_vars>>

\* The remote end or another subsystem closes a connection.
Disconnect ==
    /\ pc = "idle"
    /\ \E k \in Live : peers' = Deregister({k})
    /\ UNCHANGED <<now, prune_inbound_counts, prune_outbound_counts, passes, pass_vars>>

\* A conversation's message history changes its health score.
HealthChange ==
    /\ pc = "idle"
    /\ \E k \in Live :
       \E h \in HealthScores \ {peers[k].health} :
          peers' = [peers EXCEPT ![k].health = h]
    /\ UNCHANGED <<now, prune_inbound_counts, prune_outbound_counts, passes, pass_vars>>

Tick ==
    /\ pc = "idle"
    /\ now < MaxTime
    /\ now' = now + 1
    /\ UNCHANGED <<peers, prune_inbound_counts, prune_outbound_counts, passes, pass_vars>>

-----------------------------------------------------------------------------

Init ==
    /\ peers = [k \in {} |-> [outbound |-> FALSE, first_contact_time |-> 0, health |-> 0]]
    /\ now = 0
    /\ prune_inbound_counts = [k \in Keys |-> 0]
    /\ prune_outbound_counts = [k \in Keys |-> 0]
    /\ passes = 0
    /\ pc = "idle"
    /\ preserve = {}
    /\ pruned_by_ip = {}
    /\ num_outbound = 0
    /\ db_error = FALSE
    /\ org_neighbors = NoOrgNeighbors
    /\ orgs_todo = {}
    /\ ret = <<>>

\* Any state of the connection table a pass can be called in, for
\* checking single calls of prune_frontier.  Only differences of times
\* matter to a pass, so the clock is at MaxTime, with first contact times
\* anywhere up to it.
InitAnyTable ==
    /\ now = MaxTime
    /\ \E live \in SUBSET Keys :
          peers \in [live -> {s \in Stats : s.first_contact_time <= now}]
    /\ prune_inbound_counts = [k \in Keys |-> 0]
    /\ prune_outbound_counts = [k \in Keys |-> 0]
    /\ passes = 0
    /\ pc = "idle"
    /\ preserve = {}
    /\ pruned_by_ip = {}
    /\ num_outbound = 0
    /\ db_error = FALSE
    /\ org_neighbors = NoOrgNeighbors
    /\ orgs_todo = {}
    /\ ret = <<>>

\* The steps of a pass after it has begun.
PassBody ==
    \/ OutboundBelowTarget \/ OrgDistributionFails \/ OrgDistributionBuilt
    \/ TrimOrgWithinCap \/ TrimOrgOverCap \/ TrimOrgPanics \/ TrimDone
    \/ SampleOrg \/ SampleDone
    \/ DeregisterOutbound

PassStep == PruneInbound \/ PassBody

Environment == Connect \/ Disconnect \/ HealthChange \/ Tick

Next == PassStep \/ Environment

Spec == Init /\ [][Next]_vars

\* prune_frontier is one synchronous call: once begun, the thread running
\* it keeps taking its steps.  Nothing is assumed of when a pass begins or
\* of the environment.
Fairness == WF_vars(PassBody)

FairSpec == Spec /\ Fairness

\* Calls of prune_frontier from any connection table, without the
\* environment: behaviors stop when MaxPasses calls have returned.
PassSpec == InitAnyTable /\ [][PassStep]_vars


-----------------------------------------------------------------------------
(* Properties                                                              *)

TypeOK ==
    /\ DOMAIN peers \subseteq Keys
    /\ \A k \in Live : peers[k] \in Stats /\ peers[k].first_contact_time <= now
    /\ now \in 0..MaxTime
    /\ prune_inbound_counts \in [Keys -> 0..MaxPasses]
    /\ prune_outbound_counts \in [Keys -> 0..MaxPasses]
    /\ passes \in 0..MaxPasses
    /\ pc \in {"idle", "outbound", "trim", "sample", "deregOut", "panicked"}
    /\ preserve \subseteq Keys
    /\ pruned_by_ip \subseteq Keys
    /\ num_outbound \in Nat
    /\ db_error \in BOOLEAN
    /\ org_neighbors \in [Orgs -> Seq(Keys)]
    /\ orgs_todo \subseteq Orgs
    /\ ret \in Seq(Keys)

\* The outbound candidates of org o that the pass keeps.
KeptOfOrg(o) == {k \in OutboundCandidates(preserve) \ ToSet(ret) : PeerOrg[k] = o}

\* Spec 3 and 8 (preserve-set exclusion, no double eviction): every key the
\* outbound pruner collects is a live, outbound, non-preserved connection
\* whose peer DB record exists, and none is collected twice -- although
\* the hard-trim drops ret.len() entries of each org's list and the
\* sampling loop pops the list heads.
EvictionsSound ==
    pc \in {"trim", "sample", "deregOut"} =>
        /\ IsInjective(ret)
        /\ \A k \in ToSet(ret) : k \in OutboundCandidates(preserve) /\ PeerOrg[k] # NotFound

\* Every call of prune_frontier returns (or panics): the hard-trim loop
\* visits each org once, and each sampling iteration pops a list head, so
\* the loops of prune_frontier_outbound_orgs end and the deregistration
\* follows.
PassTerminates == pc \notin {"idle", "panicked"} ~> pc \in {"idle", "panicked"}

\* Spec 3, 4.4, 4.5 and 8: prune_frontier implements PruneSpec.  The steps
\* of the outbound pruner's loops change neither the connection table nor
\* the counters; the inbound pruner's step removes the newest inbound
\* connections of each host over its quota; the outbound pruner's
\* deregistration removes a set of non-preserved outbound connections with
\* a peer DB record, none while within soft_num_neighbors; each pruned
\* key's counter grows by exactly one.
Abstract == INSTANCE PruneSpec WITH
    phase <- CASE pc = "idle" -> "idle"
               [] pc = "panicked" -> "panicked"
               [] OTHER -> "outbound"

ImplementsPruneSpec == Abstract!Spec

\* Spec 4.4 step 3 and 8 (per-org cap): once the hard-trim loop has visited
\* every org (and from then on), either the outbound target is met or no
\* org keeps more than soft_max_neighbors_per_org of its candidates -- the
\* sampling phase only ever shares out what is left over.
OrgCapAfterTrim ==
    pc \in {"sample", "deregOut"} /\ ~db_error =>
        \/ num_outbound - Len(ret) <= SoftNumNeighbors
        \/ \A o \in Orgs : Cardinality(KeptOfOrg(o)) <= SoftMaxNeighborsPerOrg

\* The keys org_neighbor_distribution classifies: outbound, not preserved,
\* with a peer DB record.
Classified == {k \in OutboundCandidates(preserve) : PeerOrg[k] # NotFound}

\* Spec 7 ("fewer peers pruned than intended this round, relying on the
\* next maintenance cycle to retry"): a pass that finds more outbound
\* connections than soft_num_neighbors, classifies one of them, and meets
\* no peer DB error prunes at least one -- whatever the hard-trim of lines
\* 212-235 strips from the org lists, the sampling loop of 245-272 and the
\* early return of 237 leave a pass that stops short of the target with
\* some progress, so repeated passes over an unchanged table converge.
PassMakesProgress ==
    pc = "deregOut" /\ ~db_error /\ num_outbound > SoftNumNeighbors /\ Classified # {}
        => ret # <<>>

\* The node never panics in the hard-trim loop (Vec::remove(0) on an empty
\* list at line 230).
TrimNeverPanics == pc # "panicked"

\* Spec 4.4 step 3: the pruner never removes more outbound connections than
\* needed to bring their number down to soft_num_neighbors.
NoOvershoot ==
    pc = "deregOut" => num_outbound - Len(ret) >= SoftNumNeighbors \/ ret = <<>>

\* Spec 4.4 step 4: the pruner loops until the target is met or no
\* candidate remains -- it does not stop while a candidate whose org is
\* known is still connected and the target is not met.
TargetMetUnlessExhausted ==
    pc = "deregOut" /\ ~db_error =>
        \/ num_outbound - Len(ret) <= SoftNumNeighbors
        \/ \A o \in Orgs : KeptOfOrg(o) = {}

\* Spec 4.1 and 4.4: within an org, connections are pruned worst first:
\* no pruned connection ranks below (younger uptime bucket, or same bucket
\* and lower health) a kept candidate of the same org.
PrunesWorstFirst ==
    pc = "deregOut" =>
        \A p \in ToSet(ret), o \in Orgs :
           \A q \in KeptOfOrg(o) :
              PeerOrg[p] = o => ~RankLess(now, peers[q], peers[p])

=============================================================================
