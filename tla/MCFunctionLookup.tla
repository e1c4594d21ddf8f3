---------------------------- MODULE MCFunctionLookup ----------------------------
(***************************************************************************)
(* FunctionLookup on the overloads of each name of the program's context,  *)
(* registered in every order together with the cast.                       *)
(***************************************************************************)
EXTENDS FunctionLookup, ProgramContext, SequencesExt

Names == {"$operator+", "$operator-", "$operator=", "toString", "exp"}

Overloads(name) == {f \in Range(ContextFunctions) : f.name = name}

(* All the orders in which a set of functions can be registered. *)
Orders(S) == {p \in [1..Cardinality(S) -> S] : \A a, b \in DOMAIN p : a # b => p[a] # p[b]}

Casts == Range(CastFunctions)

MCStorages ==
    UNION {{RegisterAll(p) : p \in Orders(Overloads(name) \cup Casts)} : name \in Names}

MCQueries ==
    {[name |-> name, args |-> args] :
        name \in Names,
        args \in UNION {[1..n -> ContextTypes] : n \in 1..2}}

(* The same functions registered in the order of initializeContext. *)
InContextOrder ==
    RegisterAll(SelectSeq(ContextFunctions, LAMBDA f : f \in Range(storage.functions)))

(* What a call means does not depend on the order in which                 *)
(* initializeContext registers the overloads (program_compiler.cpp:211-350):*)
(* for no argument types do two overloads tie.                             *)
OrderDoesNotMatter ==
    pc = "found" => result = FindFunction(InContextOrder, query.name, query.args)
=============================================================================
