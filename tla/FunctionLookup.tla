----------------------------- MODULE FunctionLookup -----------------------------
(***************************************************************************)
(* FunctionStorage::findFunction (src/function_storage.cpp) step by step:  *)
(* one action per iteration of its two loops.  It implements the operator  *)
(* FindFunction, which says what it promises and which the compiler's      *)
(* modules use.                                                            *)
(***************************************************************************)
EXTENDS FunctionStorage, Integers

CONSTANTS Storages,     \* the storages a lookup is made in
          Queries,      \* what is looked up: a name and the argument types
          INT_MAX       \* the cost of an overload that does not fit

ASSUME LookupAssumption ==
    /\ \A storage \in Storages : IsFunctionStorage(storage)
    /\ \A query \in Queries : query.name \in STRING /\ query.args \in Seq(DataTypes)
    /\ INT_MAX \in Nat
    /\ \A query \in Queries : Len(query.args) < INT_MAX

VARIABLES storage, query, i, j, cost, optimalCost, optimalIndex, result, pc

vars == <<storage, query, i, j, cost, optimalCost, optimalIndex, result, pc>>

Init ==
    /\ storage \in Storages
    /\ query \in Queries
    /\ i = 1
    /\ j = 1
    /\ cost = 0
    /\ optimalCost = INT_MAX
    /\ optimalIndex = 0
    /\ result = {}
    /\ pc = "overload"
-----------------------------------------------------------------------------
AtOverload == pc = "overload" /\ i <= Len(storage.functions)

(* The storage keeps one vector per name; here the functions of another    *)
(* name are passed over.                                                   *)
Fits == /\ storage.functions[i].name = query.name
        /\ Len(storage.functions[i].args) = Len(query.args)

Skip ==
    /\ AtOverload /\ ~Fits
    /\ i' = i + 1
    /\ UNCHANGED <<storage, query, j, cost, optimalCost, optimalIndex, result, pc>>

Enter ==
    /\ AtOverload /\ Fits
    /\ cost' = 0
    /\ j' = 1
    /\ pc' = "argument"
    /\ UNCHANGED <<storage, query, i, optimalCost, optimalIndex, result>>

AtArgument == pc = "argument" /\ j <= Len(query.args)

TargetType == storage.functions[i].args[j]

SameType ==
    /\ AtArgument
    /\ TargetType = query.args[j]
    /\ j' = j + 1
    /\ UNCHANGED <<storage, query, i, cost, optimalCost, optimalIndex, result, pc>>

CountCast ==
    /\ AtArgument
    /\ TargetType # query.args[j]
    /\ <<query.args[j], TargetType>> \in DOMAIN storage.casts
    /\ cost' = cost + 1
    /\ j' = j + 1
    /\ UNCHANGED <<storage, query, i, optimalCost, optimalIndex, result, pc>>

(* Mutant: an argument that cannot be cast costs nothing. *)
NoCastIsFree ==
    /\ AtArgument
    /\ TargetType # query.args[j]
    /\ <<query.args[j], TargetType>> \notin DOMAIN storage.casts
    /\ pc' = "compare"
    /\ UNCHANGED <<storage, query, i, j, cost, optimalCost, optimalIndex, result>>

NoCast ==
    /\ AtArgument
    /\ TargetType # query.args[j]
    /\ <<query.args[j], TargetType>> \notin DOMAIN storage.casts
    /\ cost' = INT_MAX
    /\ pc' = "compare"
    /\ UNCHANGED <<storage, query, i, j, optimalCost, optimalIndex, result>>

ArgumentsDone ==
    /\ pc = "argument" /\ j > Len(query.args)
    /\ pc' = "compare"
    /\ UNCHANGED <<storage, query, i, j, cost, optimalCost, optimalIndex, result>>

Compare ==
    /\ pc = "compare"
    /\ IF cost < optimalCost
       THEN optimalCost' = cost /\ optimalIndex' = i
       ELSE UNCHANGED <<optimalCost, optimalIndex>>
    /\ i' = i + 1
    /\ pc' = "overload"
    /\ UNCHANGED <<storage, query, j, cost, result>>

Return ==
    /\ pc = "overload" /\ i > Len(storage.functions)
    /\ result' = IF optimalCost < INT_MAX THEN {storage.functions[optimalIndex]} ELSE {}
    /\ pc' = "found"
    /\ UNCHANGED <<storage, query, i, j, cost, optimalCost, optimalIndex>>

Terminated == pc = "found" /\ UNCHANGED vars

Next ==
    \/ Skip \/ Enter
    \/ SameType \/ CountCast \/ NoCast \/ ArgumentsDone \/ Compare
    \/ Return
    \/ Terminated

Spec == Init /\ [][Next]_vars
-----------------------------------------------------------------------------
(* The loops find the overload that needs the fewest casts, the first of   *)
(* several, and none exactly when no overload fits                         *)
(* (function_storage.cpp:11-68).                                           *)
FindsTheBest ==
    pc = "found" => result = FindFunction(storage, query.name, query.args)
=============================================================================
