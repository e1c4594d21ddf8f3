---------------------------- MODULE MCPostfixCompiler ----------------------------
(***************************************************************************)
(* PostfixCompiler with the functions of a program and one more that takes *)
(* two arguments, checked on every short token sequence and on families of *)
(* longer ones, against the grammar of ExpressionGrammar.                  *)
(***************************************************************************)
EXTENDS PostfixCompilerInv, ProgramContext

Power == [name |-> "pow", args |-> <<"double", "double">>, ret |-> "double",
          id |-> "POW", isCast |-> FALSE]

MCFunctionIds == ContextIds \cup {"POW"}

MCFunctions == RegisterAll(Append(ContextFunctions, Power))

MCVariables ==
    <<[name |-> "n", type |-> "integer", isConstant |-> FALSE, value |-> "0"],
      [name |-> "d", type |-> "double",  isConstant |-> FALSE, value |-> "0.0"],
      [name |-> "b", type |-> "boolean", isConstant |-> TRUE,  value |-> "true"]>>

MCOutOfRange == {"big"}

-----------------------------------------------------------------------------
Token(t, v) == [type |-> t, value |-> v]
Punctuation(t) == Token(t, t)
EndOfFile == Token("ENDOFFILE", "")

N == Token("ID", "n")
D == Token("ID", "d")
B == Token("ID", "b")
One == Token("INT", "1")
Pow == Token("ID", "pow")
Abs == Token("ID", "abs")
LP == Punctuation("LPAREN")
RP == Punctuation("RPAREN")
Comma == Punctuation("COMMA")
Minus == Punctuation("MINUS")
Times == Punctuation("MULT")
Not == Punctuation("NOT")

Sequences(alphabet, length) == [1..length -> alphabet]

(* One token of every kind the compiler tells apart. *)
WholeAlphabet ==
    {N, D, B, One, Token("FLOAT", "1.5"), Token("STRING", "'s'"),
     Token("TRUE", "true"), Token("FALSE", "false"), Token("INT", "big"), Token("FLOAT", "big"),
     Token("ID", "unknown"), Token("ID", "integer"), Abs, Pow, LP, RP, Comma,
     Minus, Times, Not, Punctuation("AND"), Punctuation("LESS"), Punctuation("ASSIGN")}

Shape == {N, D, One, Abs, Minus, Times, LP, RP, Comma}

AnyOperator == {Punctuation(t) : t \in DOMAIN BinaryOperators}

(* One operator of each priority, two of the additive and the equality ones.*)
Ladder == {Punctuation(t) :
            t \in {"OR", "AND", "EQUAL", "NOTEQUAL", "LESS", "PLUS", "MINUS", "MULT", "DIVINT"}}

(* a op b op c op d, the operands all of one type or mixed. *)
Chains ==
    {<<p[1], o[1], p[2], o[2], p[3], o[3], p[4]>> :
        p \in {<<N, One, D, N>>, <<N, N, B, B>>, <<B, N, N, B>>, <<B, B, N, D>>},
        o \in Sequences(Ladder, 3)}

Pairs == {<<x, o, y>> : x \in {N, D, B}, y \in {N, D, B}, o \in AnyOperator}

(* Function calls, nested and with too few and too many arguments, under   *)
(* and over the operators.                                                 *)
Operands3 == {<<One>>, <<D>>, <<LP, N, RP>>, <<Minus, N>>, <<Abs, LP, N, RP>>,
              <<Pow, LP, N, Comma, D, RP>>, <<LP, N, Comma, D, RP>>, <<N, Minus, One>>}

Calls2 ==
    {pre \o <<Pow, LP>> \o x \o <<Comma>> \o y \o <<RP>> \o post :
        pre \in {<< >>, <<Minus>>, <<N, Times>>, <<Abs, LP>>},
        x \in Operands3, y \in Operands3,
        post \in {<< >>, <<RP>>, <<Times, One>>, <<Comma, One, RP>>}}

AllShort == UNION {Sequences(WholeAlphabet, n) : n \in 0..2}

InputsOf(sequences) == {Append(s, EndOfFile) : s \in sequences}

MCInputs == InputsOf(AllShort \cup Sequences(WholeAlphabet, 3) \cup Sequences(Shape, 4)
                     \cup Sequences(Shape \ {One, Times, Comma}, 5) \cup Chains \cup Pairs \cup Calls2)

(* Parenthesised operands, without operators between them too. *)
MCParenthesized == InputsOf(UNION {Sequences({LP, RP, One, Minus}, n) : n \in 1..5})

-----------------------------------------------------------------------------
Grammar == INSTANCE ExpressionGrammar

(* Two forms the compiler accepts although no grammar of the documents has *)
(* them: a value right behind a closing parenthesis, and a comma outside   *)
(* all parentheses.  (ProgramCompiler never passes on the second.)         *)
Depth(i) == Cardinality({k \in 1..i : tokens[k].type = "LPAREN"})
              - Cardinality({k \in 1..i : tokens[k].type = "RPAREN"})

Juxtaposes == \E i \in 1..(Len(tokens) - 1) :
                /\ tokens[i].type = "RPAREN"
                /\ tokens[i + 1].type \in ValueTokens

TopLevelComma == \E i \in DOMAIN tokens : tokens[i].type = "COMMA" /\ Depth(i) = 0

Code == [k \in DOMAIN opList |-> 
            IF opList[k].op = "LOAD" THEN <<"LOAD", opList[k].id>>
                                     ELSE <<"CALL", opList[k].func>>]

(* The compiler accepts exactly the expressions the grammar gives a        *)
(* reading, and computes that reading: the priorities and the left         *)
(* associativity of the operators, prefix operators before all of them,    *)
(* arguments and casts in their order (postfix_compiler.cpp:216-625).      *)
CompilesTheGrammar ==
    pc \in Outcomes /\ ~Juxtaposes /\ ~TopLevelComma =>
        {[type |-> tree.type, code |-> Grammar!Postfix(tree)] : tree \in Grammar!Readings(tokens)}
            = IF pc = "ok" THEN {[type |-> Last(types).type, code |-> Code]} ELSE {}

(* No accepted expression has two values in a row, of which the            *)
(* interpreter would leave the first on its stack: the test                *)
(* error_on_two_values_in_a_row (test_postfix_compiler.cpp:735) rejects    *)
(* "2 3".  It is said of expressions without commas outside parentheses.   *)
LeavesOneValue == pc = "ok" /\ ~TopLevelComma => Len(types) = 1
=============================================================================
