------------------------- MODULE MCWeightedSampler -------------------------
(***************************************************************************)
(* Checks the distributions of the two samplers: every weight map over    *)
(* Orgs with a positive total, in every iteration order, with every draw. *)
(***************************************************************************)
EXTENDS WeightedSampler, FiniteSets, SequencesExt

CONSTANTS Orgs, MaxWeight

VARIABLES weights, order

vars == <<weights, order>>

Init ==
    /\ weights \in {w \in [Orgs -> 0..MaxWeight] : \E o \in Orgs : w[o] > 0}
    /\ order \in SetToSeqs(Orgs)

\* The inputs are fixed; each state is one test case.
Next == UNCHANGED vars

Spec == Init /\ [][Next]_vars

Total == TotalWeight(order, weights)

\* Number of the Total equally likely draws for which a sampler returns o.
Draws(o, Sample(_)) == Cardinality({s \in 0..Total - 1 : Sample(s) = o})

\* sample_org_by_neighbor_count picks each org with probability
\* weight / total, whatever order the HashMap iterates in: of the total
\* equally likely draws of gen_range(0, total), exactly weight select the
\* org, so zero-weight orgs are never picked and unreachable!() is never hit.
SampleOrgProportional ==
    \A o \in Orgs :
        Draws(o, LAMBDA s : SampleOrgByNeighborCount(order, weights, s)) = weights[o]

\* Spec 4.2: sample_drop_probability returns each key with probability
\* proportional to its weight: of the points 0, 1/total, ..., (total-1)/total
\* exactly weight select the key.
DropSampleProportional ==
    \A o \in Orgs :
        Draws(o, LAMBDA s : SampleDropProbability(order, weights, s, Total)) = weights[o]

=============================================================================
