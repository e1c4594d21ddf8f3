-------------------------------- MODULE TableSpec --------------------------------
(***************************************************************************)
(* What Table promises: a map from keys to values.  find returns the value *)
(* of a key or nothing, add refuses a key that is there, del removes a key *)
(* if it is there; each takes effect at once.                              *)
(***************************************************************************)
CONSTANTS Keys, Vals

VARIABLES map, request, answer, pending

vars == <<map, request, answer, pending>>

Answer(kind, values) == [kind |-> kind, values |-> values]

Init ==
    /\ DOMAIN map = {}
    /\ request = << >>
    /\ answer = Answer("none", {})
    /\ ~pending

Call ==
    /\ ~pending
    /\ request' \in [op : {"find", "add", "del"}, key : Keys, value : Vals]
    /\ pending'
    /\ UNCHANGED <<map, answer>>

Present == request.key \in DOMAIN map

Find ==
    /\ pending /\ request.op = "find"
    /\ answer' = Answer("found", IF Present THEN {map[request.key]} ELSE {})
    /\ ~pending'
    /\ UNCHANGED <<map, request>>

Add ==
    /\ pending /\ request.op = "add"
    /\ map' = IF Present THEN map
              ELSE [key \in DOMAIN map \cup {request.key} |->
                        IF key = request.key THEN request.value ELSE map[key]]
    /\ answer' = Answer(IF Present THEN "throws" ELSE "done", {})
    /\ ~pending'
    /\ UNCHANGED request

Delete ==
    /\ pending /\ request.op = "del"
    /\ map' = [key \in DOMAIN map \ {request.key} |-> map[key]]
    /\ answer' = Answer("done", {})
    /\ ~pending'
    /\ UNCHANGED request

Next == Call \/ Find \/ Add \/ Delete

Spec == Init /\ [][Next]_vars
=============================================================================
