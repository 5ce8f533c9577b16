----------------------------- MODULE ReviewGate -----------------------------
(***************************************************************************)
(* What the review of an import promises to whoever applies it: plans come *)
(* one after the other and the newest is the one chosen; a plan that needs *)
(* a decision is decided once, for good; one plan is taken, which needs no *)
(* decision or was approved; after that no other plan is made or taken.    *)
(*                                                                         *)
(* ImportReview is shown to implement this specification.                  *)
(***************************************************************************)
EXTENDS Naturals

CONSTANT MaxPlans   \* bound on the plans made for one import

VARIABLES
    decision,   \* what has been decided of each plan
    chosen,     \* the plan a client sees, 0 before the first
    taken       \* has the chosen plan been accepted for apply?

gateVars == <<decision, chosen, taken>>

Plans == 1 .. MaxPlans

Init ==
    /\ decision = [p \in Plans |-> "absent"]
    /\ chosen = 0
    /\ taken = FALSE

\* A new plan, which asks for a decision or does without.
Propose(p) ==
    /\ ~taken
    /\ decision[p] = "absent" /\ \A q \in Plans : q < p => decision[q] # "absent"
    /\ \E need \in {"not_required", "pending"} : decision' = [decision EXCEPT ![p] = need]
    /\ chosen' = p
    /\ UNCHANGED taken

\* The decision of a plan, which may be another than the one chosen by now.
Decide(p) ==
    /\ decision[p] = "pending"
    /\ \E verdict \in {"approved", "rejected"} : decision' = [decision EXCEPT ![p] = verdict]
    /\ UNCHANGED <<chosen, taken>>

Take ==
    /\ ~taken /\ chosen # 0
    /\ decision[chosen] \in {"not_required", "approved"}
    /\ taken' = TRUE
    /\ UNCHANGED <<decision, chosen>>

Next == Take \/ \E p \in Plans : Propose(p) \/ Decide(p)

Spec == Init /\ [][Next]_gateVars
=============================================================================
