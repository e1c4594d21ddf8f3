----------------------------- MODULE FunctionStorage -----------------------------
(***************************************************************************)
(* The registry of the functions an expression may call                    *)
(* (include/function_storage.h, src/function_storage.cpp): named overloads *)
(* in order of registration, and the casts among them.                     *)
(*                                                                         *)
(* A storage is a record with the sequence of the registered functions     *)
(* (mFunctions keeps one vector per name; the order within a name is the   *)
(* same) and a function from pairs of types to the operation that casts    *)
(* the first into the second (mTypeCasts).                                 *)
(***************************************************************************)
EXTENDS Naturals, Sequences, FiniteSets, TLC

CONSTANTS DataTypes,      \* the names of the registered types
          FunctionIds     \* the operations the interpreter offers

(* "isCast" abstracts the name: it says that the name starts with "$cast". *)
FunctionInfo == [name : STRING, args : Seq(DataTypes), ret : DataTypes,
                 id : FunctionIds, isCast : BOOLEAN]

IsFunctionStorage(storage) ==
    /\ storage.functions \in Seq(FunctionInfo)
    /\ DOMAIN storage.casts \subseteq DataTypes \X DataTypes
    /\ \A pair \in DOMAIN storage.casts : storage.casts[pair] \in FunctionIds

EmptyStorage == [functions |-> << >>, casts |-> << >>]

(* A later cast between the same two types replaces the earlier one, while *)
(* a later function with the same signature is only appended.              *)
RegisterFunction(storage, info) ==
    [storage EXCEPT
        !.functions = Append(@, info),
        !.casts = IF info.isCast THEN (<<info.args[1], info.ret>> :> info.id) @@ @ ELSE @]

(* The storage after the calls of registerFunction for a sequence of functions.*)
RegisterAll(infos) ==
    LET after[n \in 0..Len(infos)] ==
            IF n = 0 THEN EmptyStorage ELSE RegisterFunction(after[n - 1], infos[n])
    IN  after[Len(infos)]

IsFunctionName(storage, name) ==
    \E i \in DOMAIN storage.functions : storage.functions[i].name = name

-----------------------------------------------------------------------------

(* The positions of a call whose argument has to be cast. *)
CastPositions(info, argTypes) ==
    {j \in DOMAIN argTypes : info.args[j] # argTypes[j]}

Castable(storage, info, argTypes) ==
    \A j \in CastPositions(info, argTypes) :
        <<argTypes[j], info.args[j]>> \in DOMAIN storage.casts

Cost(info, argTypes) == Cardinality(CastPositions(info, argTypes))

Candidates(storage, name, argTypes) ==
    {i \in DOMAIN storage.functions :
        /\ storage.functions[i].name = name
        /\ Len(storage.functions[i].args) = Len(argTypes)
        /\ Castable(storage, storage.functions[i], argTypes)}

(* The overload found for a call: of the candidates that need the fewest   *)
(* casts the one registered first.  The set is empty when there is none.   *)
FindFunction(storage, name, argTypes) ==
    LET candidates == Candidates(storage, name, argTypes)
        cost(i) == Cost(storage.functions[i], argTypes)
    IN  {storage.functions[i] :
            i \in {i \in candidates :
                    \A k \in candidates :
                        cost(i) < cost(k) \/ (cost(i) = cost(k) /\ i <= k)}}

(* The operation that turns an argument of type "from" into "to". *)
CastTo(storage, from, to) == storage.casts[<<from, to>>]
=============================================================================
