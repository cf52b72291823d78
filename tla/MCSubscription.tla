--------------------------- MODULE MCSubscription ---------------------------
(* Instances of Subscription for TLC. *)
EXTENDS Subscription, TLC

MCSymmetry == Permutations(Users) \cup Permutations(Workers)

Form(r, c, p, id) == [ref |-> r, customer |-> c, plan |-> p, cycle |-> p, id |-> id]

(* Reports with the reference, as docs/BOOMFI_BILLING.md has it. *)
MCFull == {Form(TRUE, "top", FALSE, TRUE)}

(* The same without plan and cycle: the stored row stands in for them. *)
MCPartial == MCFull \cup {Form(TRUE, "top", FALSE, FALSE)}

(* Reports that name their user in one of three ways, or not at all, and all state
   their plan and cycle, in words or by the id of a plan. *)
MCIdsStated == {Form(TRUE, "none", TRUE, FALSE), Form(FALSE, "nested", TRUE, FALSE),
                Form(FALSE, "top", FALSE, TRUE), Form(FALSE, "none", TRUE, FALSE)}

MCAllIds == Plans \X Cycles
=============================================================================
