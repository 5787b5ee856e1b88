------------------------- MODULE MCPruneFrontier -------------------------
(***************************************************************************)
(* Constants of PruneFrontier for TLC: five neighbor keys, the first three *)
(* from one host and one org, so that both per-host and per-org caps can   *)
(* be exceeded.                                                            *)
(***************************************************************************)
EXTENDS PruneFrontier

CONSTANTS k1, k2, k3, k4, k5, h1, h2, o1, o2

MCHostOf == (k1 :> h1 @@ k2 :> h1 @@ k3 :> h1 @@ k4 :> h2 @@ k5 :> h2)

\* Peer DB org assignment with every key's record present.
MCPeerOrg == (k1 :> o1 @@ k2 :> o1 @@ k3 :> o1 @@ k4 :> o2 @@ k5 :> o2)

\* ... with k5 unknown to the peer DB.
MCPeerOrgPartial == (k1 :> o1 @@ k2 :> o1 @@ k3 :> o1 @@ k4 :> o2 @@ k5 :> NotFound)

\* ... with every key in org o1.
MCPeerOrgOne == [k \in {k1, k2, k3, k4, k5} |-> o1]

\* Keys of the same host and org are interchangeable under MCPeerOrg.
KeySymmetry ==
    {f @@ g : f \in Permutations({k1, k2, k3}), g \in Permutations({k4, k5})}

=============================================================================
