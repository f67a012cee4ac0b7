---------------------------- MODULE MC_PullReqCreate ----------------------------
(* Four concurrent Creates on one target repository; c1 and c2 ask for      *)
(* one branch pair, c3 and c4 for the other.  c1 assigns a label, c2        *)
(* names a reviewer, c3 both, c4 neither.                                   *)
EXTENDS PullReqCreate, TLC

CONSTANTS c1, c2, c3, c4, p1, p2

MCClients == {c1, c2, c3, c4}
MCPairs == {p1, p2}
MCPairOf == (c1 :> p1) @@ (c2 :> p1) @@ (c3 :> p2) @@ (c4 :> p2)
MCLabelsOf == (c1 :> 1) @@ (c2 :> 0) @@ (c3 :> 1) @@ (c4 :> 0)
MCReviewersOf == (c1 :> 0) @@ (c2 :> 1) @@ (c3 :> 1) @@ (c4 :> 0)

=============================================================================
