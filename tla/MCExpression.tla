------------------------------ MODULE MCExpression ------------------------------
(***************************************************************************)
(* Expression with integers of 3 bits, doubles of a few halves and the     *)
(* functions of a program, checked against ExpressionSpec.                 *)
(***************************************************************************)
EXTENDS Expression, ProgramContext, MCNumbers

MCFunctions == RegisterAll(ContextFunctions)

MCVariables ==
    <<[name |-> "n", type |-> "integer", isConstant |-> FALSE, value |-> ""],
      [name |-> "d", type |-> "double",  isConstant |-> FALSE, value |-> ""],
      [name |-> "b", type |-> "boolean", isConstant |-> FALSE, value |-> ""],
      [name |-> "s", type |-> "string",  isConstant |-> TRUE,  value |-> "s"]>>

MCOutOfRange == {"big"}

MCSamples(type) ==
    CASE type = "integer" -> {-4, -1, 0, 3}
      [] type = "double" -> {-3, 0, Infinity, NaN}
      [] type = "boolean" -> BOOLEAN
-----------------------------------------------------------------------------
Token(t, v) == [type |-> t, value |-> v]
Punctuation(t) == Token(t, t)
EndOfFile == Token("ENDOFFILE", "")

N == <<Token("ID", "n")>>
D == <<Token("ID", "d")>>
B == <<Token("ID", "b")>>
S == <<Token("ID", "s")>>
One == <<Token("INT", "1")>>
Two == <<Token("INT", "2")>>
Half == <<Token("FLOAT", "1.5")>>
Truth == <<Token("TRUE", "true")>>
LP == <<Punctuation("LPAREN")>>
RP == <<Punctuation("RPAREN")>>

In(e) == LP \o e \o RP
CallOf(f, e) == <<Token("ID", f)>> \o In(e)
Prefix(t, e) == <<Punctuation(t)>> \o e
Infix(l, t, r) == l \o <<Punctuation(t)>> \o r

Names == {"abs", "exp", "sin", "cos", "floor", "ceil", "round", "toString"}

Arithmetic == {"PLUS", "MINUS", "MULT", "DIV", "DIVINT", "MOD"}

(* Every operator and function on operands of every type. *)
Single ==
    {Infix(l, t, r) : l \in {N, D, B, S}, r \in {N, Half, B, S}, t \in DOMAIN BinaryOperators}
    \cup {Infix(N, t, Prefix("MINUS", e)) : t \in Arithmetic, e \in {One, In(Two)}}
    \cup {Prefix(t, e) : t \in {"MINUS", "NOT"}, e \in {N, D, B, S}}
    \cup {CallOf(f, e) : f \in Names, e \in {N, D, B, S, Infix(N, "DIV", Two)}}

(* Two operators: errors in the left or in the right operand, casts in     *)
(* front of and behind another operation, strings in order.                *)
Double2 ==
    {Infix(Infix(N, t, Two), u, r) : t \in Arithmetic, u \in Arithmetic, r \in {N, D}}
    \cup {Infix(Two, t, In(Infix(r, u, N))) : t \in Arithmetic, u \in Arithmetic, r \in {N, D}}
    \cup {Infix(Infix(N, "LESS", D), t, Infix(Infix(Two, "DIVINT", N), "EQUAL", Two)) : t \in {"AND", "OR"}}
    \cup {Infix(Infix(S, "PLUS", CallOf("toString", e)), "PLUS", S)
            : e \in {N, D, B, Infix(N, "DIV", Two)}}

MCInputs == {e \o <<EndOfFile>> : e \in Single \cup Double2}
-----------------------------------------------------------------------------
Result ==
    IF status \notin Interpreter!Stops THEN {}
    ELSE {[kind |-> status,
           type |-> IF status = "value" THEN Last(values).type ELSE "integer",
           value |-> IF status = "value" THEN Last(values).value ELSE 0]}

State ==
    CASE pc = "syntax error" -> "rejected"
      [] pc # "ok" -> "given"
      [] status = "compiling" -> "accepted"
      [] status \in {"idle", "running"} -> "running"
      [] OTHER -> "done"

Promise == INSTANCE ExpressionSpec WITH input <- tokens, state <- State, result <- Result

(* The compiler and the interpreter together evaluate what README.md says  *)
(* an expression means, or report its first error.  In particular the      *)
(* interpreter never finds a wrong type or an empty stack, though nothing  *)
(* at run time checks the program it is given, and the value has the type  *)
(* the compiler announced, on which AssignNode and IfNode rely             *)
(* (postfix_compiler.cpp:216-625, postfix_interpreter.cpp:5-292).          *)
EvaluatesTheMeaning == Promise!Spec
=============================================================================
