----------------------------- MODULE ExpressionSpec -----------------------------
(***************************************************************************)
(* What the compiler and the interpreter promise together: an expression   *)
(* that the grammar gives no reading is rejected; one that it gives a      *)
(* reading can be evaluated, with any values of the variables, and comes   *)
(* to the value of its reading or to the first error met from the left.    *)
(***************************************************************************)
EXTENDS ExpressionMeaning

CONSTANTS Inputs

VARIABLES input, state, memory, result

vars == <<input, state, memory, result>>

NoResult == {}

Init ==
    /\ input \in Inputs
    /\ state = "given"
    /\ memory = << >>
    /\ result = NoResult

Reject ==
    /\ state = "given"
    /\ Readings(input) = {}
    /\ state' = "rejected"
    /\ UNCHANGED <<input, memory, result>>

Accept ==
    /\ state = "given"
    /\ Readings(input) # {}
    /\ state' = "accepted"
    /\ UNCHANGED <<input, memory, result>>

(* The statements that run before leave some values in the variables. *)
Begin ==
    /\ state = "accepted"
    /\ memory' # << >>
    /\ state' = "running"
    /\ UNCHANGED <<input, result>>

End ==
    /\ state = "running"
    /\ \E tree \in Readings(input) :
            \E outcome \in Outcomes(tree, memory) : result' = {outcome}
    /\ state' = "done"
    /\ UNCHANGED <<input, memory>>

Next == Reject \/ Accept \/ Begin \/ End

Spec == Init /\ [][Next]_vars
=============================================================================
