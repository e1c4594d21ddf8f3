---------------------------- MODULE ExpressionGrammar ----------------------------
(***************************************************************************)
(* What an expression means, independently of how it is compiled: the      *)
(* grammar of README.md ("Arithmetic expressions", "Logical expressions"   *)
(* and the table of priorities) as a recursive definition over intervals   *)
(* of the token sequence.  The members of Meaning are the readings of an   *)
(* interval: trees whose nodes are the operations, with their types, and   *)
(* whose children are the operands from left to right.                     *)
(* For model checking only: it is exponential and recursive.               *)
(***************************************************************************)
EXTENDS FunctionStorage, SequencesExt

CONSTANTS Functions, Variables, OutOfRange

(* The operators of each priority, the weakest first (README.md:228-234). *)
Priorities == <<
    [OR |-> "$operatoror"],
    [AND |-> "$operatorand"],
    [EQUAL |-> "$operator=", NOTEQUAL |-> "$operator<>"],
    [LESS |-> "$operator<", LESSEQUAL |-> "$operator<=",
     GREATER |-> "$operator>", GREATEREQUAL |-> "$operator>="],
    [PLUS |-> "$operator+", MINUS |-> "$operator-"],
    [MULT |-> "$operator*", DIV |-> "$operator/",
     DIVINT |-> "$operatordiv", MOD |-> "$operatormod"] >>

Unary == [MINUS |-> "$operator-", NOT |-> "$operatornot"]

Literal == [INT |-> "integer", FLOAT |-> "double", STRING |-> "string",
            TRUE |-> "boolean", FALSE |-> "boolean"]

UnaryLevel == Len(Priorities) + 1
PrimaryLevel == UnaryLevel + 1

Node(type, op, children) == [type |-> type, op |-> op, children |-> children]

(* The reading of a call: the arguments from left to right, each under the *)
(* cast it needs.                                                          *)
Apply(name, args) ==
    LET argTypes == [i \in DOMAIN args |-> args[i].type]
        casted(func, i) ==
            IF func.args[i] = argTypes[i] THEN args[i]
            ELSE Node(func.args[i],
                      <<"CALL", CastTo(Functions, argTypes[i], func.args[i])>>, <<args[i]>>)
    IN  {Node(func.ret, <<"CALL", func.id>>, [i \in DOMAIN args |-> casted(func, i)]) :
            func \in FindFunction(Functions, name, argTypes)}

(* An operand is a declared variable or a literal; the literals of an      *)
(* expression are numbered from left to right.                             *)
Operand(toks, i) ==
    LET token == toks[i]
        literalsBefore == Cardinality({k \in 1..(i - 1) : toks[k].type \in DOMAIN Literal})
        reading(type, id) == Node(type, <<"LOAD", id>>, << >>)
    IN  IF token.type = "ID"
        THEN {reading(Variables[v].type, v) :
                v \in {v \in DOMAIN Variables :
                        /\ Variables[v].name = token.value
                        /\ token.value \notin DataTypes
                        /\ ~IsFunctionName(Functions, token.value)}}
        ELSE IF token.type \in DOMAIN Literal /\ token.value \notin OutOfRange
        THEN {reading(Literal[token.type], Len(Variables) + literalsBefore + 1)}
        ELSE {}

(* A prefix operator is not applied to another one directly: so the test   *)
(* error_on_two_unary_operators_in_a_row (test_postfix_compiler.cpp:674).  *)
RECURSIVE Meaning(_, _, _, _), Arguments(_, _, _), Postfix(_)

(* The readings of toks[i..j] as an expression whose operators outside     *)
(* parentheses are of the given priority or a higher one.                  *)
Meaning(toks, i, j, level) ==
    IF i > j THEN {}
    ELSE IF level < UnaryLevel THEN
        Meaning(toks, i, j, level + 1) \cup
        UNION {UNION {UNION {
            Apply(Priorities[level][toks[k].type], <<l, r>>)
                : r \in Meaning(toks, k + 1, j, level + 1)}
                : l \in Meaning(toks, i, k - 1, level)}
                : k \in {k \in (i + 1)..(j - 1) : toks[k].type \in DOMAIN Priorities[level]}}
    ELSE IF level = UnaryLevel THEN
        Meaning(toks, i, j, PrimaryLevel) \cup
        (IF toks[i].type \in DOMAIN Unary
         THEN UNION {Apply(Unary[toks[i].type], <<x>>)
                        : x \in Meaning(toks, i + 1, j, PrimaryLevel)}
         ELSE {})
    ELSE
        (IF i = j THEN Operand(toks, i) ELSE {}) \cup
        (IF toks[i].type = "LPAREN" /\ toks[j].type = "RPAREN"
         THEN Meaning(toks, i + 1, j - 1, 1) ELSE {}) \cup
        (IF /\ toks[i].type = "ID" /\ j > i + 2
            /\ toks[i + 1].type = "LPAREN" /\ toks[j].type = "RPAREN"
         THEN UNION {Apply(toks[i].value, args) : args \in Arguments(toks, i + 2, j - 1)}
         ELSE {})

(* The readings of toks[i..j] as arguments separated by commas. *)
Arguments(toks, i, j) ==
    {<<x>> : x \in Meaning(toks, i, j, 1)} \cup
    UNION {{<<x>> \o rest : x \in Meaning(toks, i, k - 1, 1), rest \in Arguments(toks, k + 1, j)}
            : k \in {k \in i..j : toks[k].type = "COMMA"}}

(* The readings of a whole input, which ends in the end-of-file token. *)
Readings(toks) == Meaning(toks, 1, Len(toks) - 1, 1)

(* The operations of a tree, each behind those of its operands. *)
Postfix(tree) ==
    Append(FlattenSeq([i \in DOMAIN tree.children |-> Postfix(tree.children[i])]), tree.op)
=============================================================================
