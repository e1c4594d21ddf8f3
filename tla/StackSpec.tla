-------------------------------- MODULE StackSpec --------------------------------
(***************************************************************************)
(* What the stacks promise: sequences, of which only the end is seen.  A   *)
(* call that throws changes none of them, but for a push and an assignment *)
(* of elements that cannot be copied.                                      *)
(***************************************************************************)
EXTENDS Naturals, Sequences

CONSTANTS Stacks, Values, Unset, MaxStackSize

VARIABLES contents,     \* the elements of each stack there is
          outcome

specVars == <<contents, outcome>>

Init == contents = << >> /\ outcome = [call |-> "none"]

Answer(call, s, result) == outcome' = [call |-> call, stack |-> s, result |-> result]

With(s, elements) ==
    [t \in DOMAIN contents \cup {s} |-> IF t = s THEN elements ELSE contents[t]]

Construct(s) ==
    /\ s \notin DOMAIN contents
    /\ contents' = With(s, << >>)
    /\ Answer("construct", s, "done")

Destruct(s) ==
    /\ contents' = [t \in DOMAIN contents \ {s} |-> contents[t]]
    /\ Answer("destruct", s, "done")

(* Construction and assignment, by copying and by moving. *)
Copy(s, other) ==
    /\ contents' = With(s, contents[other])
    /\ Answer(IF s \in DOMAIN contents THEN "assign" ELSE "copy", s, "done")

Move(s, other) ==
    /\ contents' = IF s = other THEN contents
                   ELSE [With(s, contents[other]) EXCEPT ![other] = << >>]
    /\ Answer(IF s \in DOMAIN contents THEN "move assign" ELSE "move", s, "done")

Swap(s, other) ==
    /\ contents' = [contents EXCEPT ![s] = contents[other], ![other] = contents[s]]
    /\ Answer("swap", s, "done")

Push(s, v) ==
    /\ contents' = [contents EXCEPT ![s] = Append(@, v)]
    /\ Answer("push", s, "done")

Pop(s) ==
    /\ contents[s] # << >>
    /\ contents' = [contents EXCEPT ![s] = SubSeq(@, 1, Len(@) - 1)]
    /\ Answer("pop", s, "done")

Top(s) ==
    /\ contents[s] # << >>
    /\ Answer("top", s, contents[s][Len(contents[s])])
    /\ UNCHANGED contents

Reserve(s) == Answer("reserve", s, "done") /\ UNCHANGED contents

(* A stack is only refused a push when twice its elements would be too     *)
(* many; the capacity is doubled.                                          *)
Throw(s) ==
    /\ UNCHANGED contents
    /\ \/ /\ s \in DOMAIN contents /\ contents[s] = << >>
          /\ \E call \in {"top", "pop"} : Answer(call, s, "logic_error")
       \/ /\ s \in DOMAIN contents /\ 2 * Len(contents[s]) > MaxStackSize
          /\ Answer("push", s, "length_error")
       \/ \E call \in {"reserve", "construct"} : Answer(call, s, "length_error")
       \/ \E call \in {"push", "reserve", "construct", "copy", "assign"} : Answer(call, s, "bad_alloc")

Cells == Values \cup {Unset}

(* The element is not pushed but there is one more, with whatever was in   *)
(* its cell.                                                               *)
PushesNothing(s) ==
    /\ Answer("push", s, "bad_alloc")
    /\ \E e \in Cells : contents' = [contents EXCEPT ![s] = Append(@, e)]

(* There are as many elements as there should be, and the first are those  *)
(* of the other stack.  The rest are in a new block, where nobody has      *)
(* written anything, or are still the old ones, followed by what was in    *)
(* the cells behind them.                                                  *)
AssignsSome(s, other) ==
    /\ s # other
    /\ Answer("assign", s, "bad_alloc")
    /\ \E n \in 0..(Len(contents[other]) - 1), elements \in [1..Len(contents[other]) -> Cells] :
          /\ \A k \in 1..n : elements[k] = contents[other][k]
          /\ \/ \A k \in (n + 1)..Len(contents[other]) : elements[k] = Unset
             \/ \A k \in (n + 1)..Len(contents[other]) :
                   k <= Len(contents[s]) => elements[k] = contents[s][k]
          /\ contents' = With(s, elements)

Next ==
    \/ \E s \in Stacks : Construct(s) \/ Throw(s)
    \/ \E s \in Stacks, other \in DOMAIN contents : Copy(s, other) \/ Move(s, other)
    \/ \E s \in DOMAIN contents :
          \/ Destruct(s) \/ Pop(s) \/ Top(s) \/ Reserve(s)
          \/ \E v \in Values : Push(s, v)
          \/ \E other \in DOMAIN contents : Swap(s, other) \/ AssignsSome(s, other)
          \/ PushesNothing(s)

Spec == Init /\ [][Next]_specVars
=============================================================================
