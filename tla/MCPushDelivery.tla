--------------------------- MODULE MCPushDelivery ---------------------------
(* Instances of PushDelivery for TLC.                                      *)
EXTENDS PushDelivery, TLC

CONSTANTS ann, bob, t1, t2, w1, w2

\* Ann has two devices, so her notification spans two requests.
MCUserOf == 1 :> ann @@ 2 :> bob
MCOwner0 == t1 :> ann @@ t2 :> ann
=============================================================================
