----------------------------- MODULE PushPromise -----------------------------
(***************************************************************************)
(* What push delivery promises of each notification: a device gets it at   *)
(* most once, and only one run has it in hand.  A notification that waits, *)
(* or that a run hands back, was pushed to no device.                      *)
(***************************************************************************)
EXTENDS Naturals

CONSTANTS Notification, Token
VARIABLES phase,    \* [Notification -> {"waiting", "out", "over"}]
          pushed    \* [Notification \X Token -> Nat]: times a device got it

Untouched(n) == \A t \in Token : pushed[<<n, t>>] = 0
Same(n) == \A t \in Token : pushed'[<<n, t>>] = pushed[<<n, t>>]

Init == /\ phase = [n \in Notification |-> "waiting"]
        /\ pushed = [x \in Notification \X Token |-> 0]

Take(n) == phase[n] = "waiting" /\ phase'[n] = "out" /\ Same(n)
Push(n) == /\ phase[n] = "out" /\ phase'[n] = "out"
           /\ \A t \in Token : \/ pushed'[<<n, t>>] = pushed[<<n, t>>]
                               \/ pushed[<<n, t>>] = 0 /\ pushed'[<<n, t>>] = 1
HandBack(n) == phase[n] = "out" /\ Untouched(n) /\ phase'[n] = "waiting" /\ Same(n)
Settle(n) == phase'[n] = "over" /\ Same(n)
Wait(n) == phase'[n] = phase[n] /\ Same(n)

Next == /\ \A n \in Notification : Take(n) \/ Push(n) \/ HandBack(n) \/ Settle(n) \/ Wait(n)
        /\ phase' \in [Notification -> {"waiting", "out", "over"}]
        /\ pushed' \in [Notification \X Token -> Nat]

Spec == Init /\ [][Next]_<<phase, pushed>>
=============================================================================
