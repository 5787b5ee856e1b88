-------------------------- MODULE WeightedSampler --------------------------
(***************************************************************************)
(* The two weighted samplers of src/net/prune.rs.  A HashMap's iteration   *)
(* order is arbitrary, so both take it as a parameter: order lists the     *)
(* map's keys in the order iter() visits them, w gives their weights.      *)
(***************************************************************************)
EXTENDS Naturals, Sequences

\* Result of sample_org_by_neighbor_count when its walk falls off the end
\* (the unreachable!() of line 179).
Unreachable == "unreachable"

\* Sum of the weights of the keys in order (the first loop of either
\* sampler).
RECURSIVE TotalWeight(_, _)
TotalWeight(order, w) ==
    IF order = <<>> THEN 0 ELSE w[Head(order)] + TotalWeight(Tail(order), w)

\* The walk of sample_org_by_neighbor_count from the entry at the head of
\* order on, with the running offset: zero counts are skipped, and the
\* first org whose [offset, offset + count) holds the draw is returned.
RECURSIVE OrgWalk(_, _, _, _)

\* Mutation of OrgWalk: the interval test made inclusive at its upper end.
OrgWalkInclusive(order, w, sample, offset) ==
    IF order = <<>> THEN Unreachable
    ELSE LET org == Head(order)
             count == w[org]
         IN IF count # 0 /\ offset <= sample /\ sample <= offset + count
            THEN org
            ELSE OrgWalk(Tail(order), w, sample, offset + count)

OrgWalk(order, w, sample, offset) ==
    IF order = <<>> THEN Unreachable
    ELSE LET org == Head(order)
             count == w[org]
         IN IF count # 0 /\ offset <= sample /\ sample < offset + count
            THEN org
            ELSE OrgWalk(Tail(order), w, sample, offset + count)

\* sample_org_by_neighbor_count(org_weights) for the draw
\* sample = rng.gen_range(0, total).
SampleOrgByNeighborCount(order, w, sample) == OrgWalk(order, w, sample, 0)

\* The walk of sample_drop_probability with the point given as the exact
\* fraction point/denom: the entry whose cumulative normalized weight
\* cum/sum is at most the point is returned, the last entry if none is.
\* Floating-point rounding of v / sum + off is abstracted away.
RECURSIVE DropWalk(_, _, _, _, _, _)
DropWalk(order, w, sum, point, denom, cum) ==
    LET nk == Head(order)
        p == cum + w[nk]
    IN IF point * sum >= p * denom \/ Len(order) = 1
       THEN nk
       ELSE DropWalk(Tail(order), w, sum, point, denom, p)

\* sample_drop_probability(point/denom, drop_prob) for a non-empty map.
SampleDropProbability(order, w, point, denom) ==
    DropWalk(order, w, TotalWeight(order, w), point, denom, 0)

=============================================================================
