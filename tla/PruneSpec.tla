----------------------------- MODULE PruneSpec ------------------------------
(***************************************************************************)
(* What a call of PeerNetwork::prune_frontier promises, with its loops     *)
(* and intermediate lists hidden: a pass is two atomic evictions.          *)
(*                                                                         *)
(*   EvictInbound   removes a set of non-preserved inbound connections,    *)
(*                  nothing while they are within soft_num_clients, and    *)
(*                  otherwise the newest of each host beyond               *)
(*                  soft_max_clients_per_host;                             *)
(*   EvictOutbound  removes a set of non-preserved outbound connections    *)
(*                  whose peer DB record exists, nothing while they are    *)
(*                  within soft_num_neighbors;                             *)
(*                                                                         *)
(* and each evicted key's telemetry counter grows by exactly one.  The     *)
(* node may abort during the outbound step (Abort).  Between passes the    *)
(* connection table and the clock may change in any way that keeps the    *)
(* stats of the connections that stay.                                     *)
(***************************************************************************)
EXTENDS Naturals, FiniteSets

CONSTANTS Keys, Hosts, HostOf, Orgs, NotFound, PeerOrg, HealthScores,
          SoftNumNeighbors, SoftMaxNeighborsPerOrg, SoftNumClients,
          SoftMaxClientsPerHost, MaxTime, MaxPasses

VARIABLES peers, now, prune_inbound_counts, prune_outbound_counts, passes,
          phase, preserve

vars == <<peers, now, prune_inbound_counts, prune_outbound_counts, passes,
          phase, preserve>>

Stats == [outbound : BOOLEAN, first_contact_time : 0..MaxTime, health : HealthScores]

\* f is a connection table at time t.
IsTable(f, t) ==
    /\ DOMAIN f \subseteq Keys
    /\ \A k \in DOMAIN f : f[k] \in Stats /\ f[k].first_contact_time <= t

Live == DOMAIN peers
Outbound == {k \in Live : peers[k].outbound}
Inbound == Live \ Outbound

Evict(E) == [k \in Live \ E |-> peers[k]]
CountOnce(counts, E) == [k \in Keys |-> IF k \in E THEN counts[k] + 1 ELSE counts[k]]

\* The inbound evictions allowed from the non-preserved inbound cands.
HostQuota(E, cands) ==
    LET ofHost(h) == {k \in cands : HostOf[k] = h}
        keep(h) == IF Cardinality(ofHost(h)) < SoftMaxClientsPerHost
                   THEN Cardinality(ofHost(h)) ELSE SoftMaxClientsPerHost
    IN IF Cardinality(Inbound) <= SoftNumClients THEN E = {}
       ELSE /\ \A h \in Hosts : Cardinality(ofHost(h) \ E) = keep(h)
            /\ \A p \in E, q \in cands \ E :
                  HostOf[p] = HostOf[q] =>
                     peers[q].first_contact_time <= peers[p].first_contact_time

EvictInbound ==
    /\ phase = "idle"
    /\ passes < MaxPasses
    /\ \E p \in SUBSET Live :
       \E E \in SUBSET (Inbound \ p) :
          /\ HostQuota(E, Inbound \ p)
          /\ peers' = Evict(E)
          /\ prune_inbound_counts' = CountOnce(prune_inbound_counts, E)
          /\ preserve' = p
    /\ phase' = "outbound"
    /\ UNCHANGED <<now, prune_outbound_counts, passes>>

EvictOutbound ==
    /\ phase = "outbound"
    /\ \E E \in SUBSET {k \in Outbound \ preserve : PeerOrg[k] # NotFound} :
          /\ Cardinality(Outbound) <= SoftNumNeighbors => E = {}
          /\ peers' = Evict(E)
          /\ prune_outbound_counts' = CountOnce(prune_outbound_counts, E)
    /\ passes' = passes + 1
    /\ phase' = "idle"
    /\ preserve' = {}
    /\ UNCHANGED <<now, prune_inbound_counts>>

Abort ==
    /\ phase = "outbound"
    /\ phase' = "panicked"
    /\ UNCHANGED <<peers, now, prune_inbound_counts, prune_outbound_counts,
                   passes, preserve>>

Environment ==
    /\ phase = "idle"
    /\ now' \in now..MaxTime
    /\ IsTable(peers', now')
    /\ \A k \in Live \cap DOMAIN peers' :
          /\ peers'[k].outbound = peers[k].outbound
          /\ peers'[k].first_contact_time = peers[k].first_contact_time
    /\ \A k \in DOMAIN peers' \ Live : peers'[k].first_contact_time >= now
    /\ UNCHANGED <<prune_inbound_counts, prune_outbound_counts, passes,
                   phase, preserve>>

Init ==
    /\ now \in 0..MaxTime
    /\ IsTable(peers, now)
    /\ prune_inbound_counts = [k \in Keys |-> 0]
    /\ prune_outbound_counts = [k \in Keys |-> 0]
    /\ passes = 0
    /\ phase = "idle"
    /\ preserve = {}

Next == EvictInbound \/ EvictOutbound \/ Abort \/ Environment

Spec == Init /\ [][Next]_vars

=============================================================================
