---------------------------- MODULE ExpressionMeaning ----------------------------
(***************************************************************************)
(* The value of an expression, independently of how it is executed: what   *)
(* README.md says of the operators ("Arithmetic expressions", "Logical     *)
(* expressions") applied to the trees of ExpressionGrammar, operands from  *)
(* left to right.  Outcomes gives a set, since an integer result out of    *)
(* range is undefined.                                                     *)
(***************************************************************************)
EXTENDS ExpressionGrammar, Integers

CONSTANTS IntMin, IntMax,
          ZeroDouble, DoubleLess(_, _), DoubleEqual(_, _), DoubleOp(_, _),
          ToDouble(_), Rounded(_, _), Text(_, _)

Outcome(kind, type, v) == [kind |-> kind, type |-> type, value |-> v]
Done(type, v) == Outcome("value", type, v)
ZeroDivision == Outcome("zero division", "integer", 0)
Trap == Outcome("trap", "integer", 0)

InRange(n) == IntMin <= n /\ n <= IntMax

Integer(n) == {Done("integer", m) : m \in IF InRange(n) THEN {n} ELSE IntMin..IntMax}
Double(x) == {Done("double", x)}
Boolean(p) == {Done("boolean", p)}
String(s) == {Done("string", s)}

Abs(n) == IF n < 0 THEN -n ELSE n

(* The quotient and the remainder of l and r: the remainder is smaller     *)
(* than r and has the sign of l.  The quotient of the smallest integer and *)
(* -1 is out of range, and its computation may end the process.            *)
Divisions(l, r) ==
    {d \in [quotient : (-Abs(l))..Abs(l), rest : (-Abs(l))..Abs(l)] :
        /\ d.quotient * r + d.rest = l
        /\ Abs(d.rest) < Abs(r)
        /\ d.rest # 0 => (d.rest < 0) = (l < 0)}

Divide(l, r, part(_)) ==
    IF r = 0 THEN {ZeroDivision}
    ELSE UNION {Integer(part(d)) : d \in Divisions(l, r)}
            \cup (IF l = IntMin /\ r = -1 THEN {Trap} ELSE {})

(* The operations, by their names in PostfixInterpreter::Opcodes.          *)
OfIntegers(id, l, r) ==
    CASE id = "ADD_INT_INT" -> Integer(l + r)
      [] id = "SUB_INT_INT" -> Integer(l - r)
      [] id = "MULT_INT_INT" -> Integer(l * r)
      [] id = "DIV_INT_INT" -> Divide(l, r, LAMBDA d : d.quotient)
      [] id = "MOD_INT_INT" -> Divide(l, r, LAMBDA d : d.rest)
      [] id = "LESS_INT" -> Boolean(l < r)
      [] id = "LESSEQUAL_INT" -> Boolean(l <= r)
      [] id = "GREATER_INT" -> Boolean(l > r)
      [] id = "GREATEREQUAL_INT" -> Boolean(l >= r)
      [] id = "EQUAL_INT" -> Boolean(l = r)
      [] id = "NOTEQUAL_INT" -> Boolean(l # r)

OfDoubles(id, l, r) ==
    CASE id = "DIV_DOUBLE_DOUBLE" /\ DoubleEqual(r, ZeroDouble) -> {ZeroDivision}
      [] id = "LESS_DOUBLE" -> Boolean(DoubleLess(l, r))
      [] id = "LESSEQUAL_DOUBLE" -> Boolean(DoubleLess(l, r) \/ DoubleEqual(l, r))
      [] id = "GREATER_DOUBLE" -> Boolean(DoubleLess(r, l))
      [] id = "GREATEREQUAL_DOUBLE" -> Boolean(DoubleLess(r, l) \/ DoubleEqual(l, r))
      [] id = "EQUAL_DOUBLE" -> Boolean(DoubleEqual(l, r))
      [] id = "NOTEQUAL_DOUBLE" -> Boolean(~DoubleEqual(l, r))
      [] OTHER -> Double(DoubleOp(id, <<l, r>>))

OfBooleans(id, l, r) ==
    CASE id = "AND_BOOL_BOOL" -> Boolean(l /\ r)
      [] id = "OR_BOOL_BOOL" -> Boolean(l \/ r)
      [] id = "EQUAL_BOOL" -> Boolean(l <=> r)
      [] id = "NOTEQUAL_BOOL" -> Boolean(~(l <=> r))

OfOne(id, x) ==
    CASE id = "NEGATE_INT" -> Integer(-x)
      [] id = "ABS_INT" -> Integer(Abs(x))
      [] id = "CAST_INT_DOUBLE" -> Double(ToDouble(x))
      [] id = "NOT_BOOL" -> Boolean(~x)
      [] id \in {"FLOOR_DOUBLE", "CEIL_DOUBLE", "ROUND_DOUBLE"} -> Integer(Rounded(id, x))
      [] id \in {"TO_STRING_INT", "TO_STRING_DOUBLE", "TO_STRING_BOOL"} -> String(Text(id, <<x>>))
      [] OTHER -> Double(DoubleOp(id, <<x>>))

OfTwo(id, type, l, r) ==
    CASE type = "integer" -> OfIntegers(id, l, r)
      [] type = "double" -> OfDoubles(id, l, r)
      [] type = "boolean" -> OfBooleans(id, l, r)
      [] type = "string" -> String(Text(id, <<l, r>>))

RECURSIVE Outcomes(_, _)

(* What the tree may come to when the variables and literals have the      *)
(* values of "memory".  Both operands of "and" and "or" are evaluated; an  *)
(* error of the left operand comes before one of the right.                *)
Outcomes(tree, memory) ==
    LET operand(k) == Outcomes(tree.children[k], memory)
    IN  CASE Len(tree.children) = 0 -> {Done(tree.type, memory[tree.op[2]].value)}
          [] Len(tree.children) = 1 ->
                UNION {IF x.kind # "value" THEN {x} ELSE OfOne(tree.op[2], x.value)
                        : x \in operand(1)}
          [] Len(tree.children) = 2 ->
                UNION {IF l.kind # "value" THEN {l}
                       ELSE UNION {IF r.kind # "value" THEN {r}
                                   ELSE OfTwo(tree.op[2], l.type, l.value, r.value)
                                    : r \in operand(2)}
                        : l \in operand(1)}
=============================================================================
