------------------------------- MODULE MCVariables -------------------------------
(***************************************************************************)
(* Two contexts, the second of which may be a copy of the first, with two  *)
(* types that can be registered in either order.                           *)
(***************************************************************************)
EXTENDS VariablesStorage, FiniteSetsExt, TLC

CONSTANTS c1, c2, v, w,
          MaxTogether,  \* bound on the variables, and the literals, of all live contexts
          MaxThings     \* bound on the types and variables of all live contexts, and one
                        \* less where one was registered halfway

MCContexts == {c1, c2}
MCPayloads == {v, w}
MCNames == {"x"}
MCLiteral(n) == "$" \o ToString(n)
MCKinds == {1, 2}
MCDataTypes == {[name |-> "integer", index |-> 1], [name |-> "double", index |-> 2]}
Symmetry == Permutations(MCPayloads)

Live == {c \in Contexts : state[c] = "live"}

Together(f(_)) == MapThenSumSet(f, Live)

FewVariables == Together(LAMBDA c : Len(infos[c])) <= MaxTogether
FewLiterals == Together(LAMBDA c : nextLiteral[c]) <= MaxTogether

(* At most one type or variable was registered halfway, or one and its     *)
(* copy.                                                                   *)
Halfway(c) ==
    {<<"type", id>> : id \in {id \in DOMAIN types[c] : ~NamedTypes[c][id].named}} \cup
    {<<"variable", id>> : id \in {id \in DOMAIN infos[c] : ~Entries[c][id].named}}

Failures == Cardinality(UNION {Halfway(c) : c \in Live})

FewFailures == Failures <= 1

FewThings == Together(LAMBDA c : Len(types[c]) + Len(infos[c])) + Failures <= MaxThings

(* The second context is a copy of the first, if both are made: otherwise  *)
(* they share nothing.                                                     *)
Related == state[c2] = "unused" \/ owner[c2] = c1

(* States that differ in the last answer only are taken for one, and so    *)
(* are those that differ in what a destroyed context, which nothing can    *)
(* copy, has contained.                                                    *)
Left(f) == [c \in Live |-> f[c]]
View == <<Left(types), Left(typeTable), Left(infos), Left(memory), Left(table), Left(nextLiteral), Left(owner),
          state, torn \cap Live, answer = [call |-> "undefined"]>>
=============================================================================
