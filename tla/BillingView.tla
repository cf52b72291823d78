----------------------------- MODULE BillingView -----------------------------
(***************************************************************************)
(* What the subscription row of a user promises to show: the plan chosen   *)
(* at a checkout that awaits payment, or one thing BoomFi said about that  *)
(* user, whole: its status, plan and billing cycle together, never the     *)
(* status of one report beside the plan of another.                        *)
(***************************************************************************)
CONSTANTS Users, Plans, Cycles, Statuses, None

VARIABLES shown,  \* what /status answers of each user: status, plan, cycle
          said    \* everything BoomFi said about each user

vars == <<shown, said>>

Views == Statuses \X Plans \X Cycles

Init == shown = [u \in Users |-> None] /\ said = [u \in Users |-> {}]

Say(u) ==
  /\ said'[u] \in SUBSET Views
  /\ said' = [said EXCEPT ![u] = @ \cup said'[u]]
  /\ UNCHANGED shown

Choose(u, p, c) ==
  /\ shown' = [shown EXCEPT ![u] = <<"checkout_pending", p, c>>]
  /\ UNCHANGED said

Show(u) ==
  /\ \E v \in said[u] : shown' = [shown EXCEPT ![u] = v]
  /\ UNCHANGED said

Next ==
  \E u \in Users :
     \/ Say(u)
     \/ \E p \in Plans, c \in Cycles : Choose(u, p, c)
     \/ Show(u)

Spec == Init /\ [][Next]_vars
=============================================================================
