----------------------------- MODULE MCHandoff -----------------------------
(* Instances of Handoff for TLC: pages that agree, or differ in a price and  *)
(* in a listing that comes or goes.                                         *)
EXTENDS HandoffInvariant, TLC

CONSTANTS x, y

MCContents == {x :> 2, (x :> 1) @@ (y :> 1)}
OneContent == {x :> 2}

=============================================================================
