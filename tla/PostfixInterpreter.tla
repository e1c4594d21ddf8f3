---------------------------- MODULE PostfixInterpreter ----------------------------
(***************************************************************************)
(* Execution of a compiled expression: PostfixInterpreter::execute         *)
(* (src/expression_interpreter/postfix_interpreter.cpp) and its typed pops *)
(* (include/expression_interpreter/postfix_interpreter.h).  One step is    *)
(* one operation of the program.                                           *)
(*                                                                         *)
(* Integers have the width of the constants IntMin and IntMax; an overflow *)
(* is undefined behaviour, which may give any integer.  The arithmetic of  *)
(* doubles and the texts of strings are parameters: the interpreter        *)
(* depends on them only through the comparison of a divisor with zero.     *)
(***************************************************************************)
EXTENDS Integers, Sequences, FiniteSetsExt

CONSTANTS IntMin, IntMax,
          Doubles, ZeroDouble,
          DoubleLess(_, _), DoubleEqual(_, _),
          DoubleOp(_, _),       \* a double operation and its operands
          ToDouble(_),          \* of an integer
          Rounded(_, _),        \* floor, ceil or round of a double
          Strings,
          Text(_, _)            \* concatenation and toString

ASSUME NumbersAssumption ==
    /\ IntMin \in Int /\ IntMax \in Int /\ IntMin < 0 /\ 0 < IntMax
    /\ ZeroDouble \in Doubles

VARIABLES program,      \* of records: op "LOAD" and id, or op "CALL" and func
          infos,        \* the variable storage: the type of each entry,
          memory,       \* and its value
          stack,        \* mStack
          ip,           \* the operation to execute, from 1
          status

vars == <<program, infos, memory, stack, ip, status>>

Ints == IntMin..IntMax

Values(type) ==
    CASE type = "integer" -> Ints
      [] type = "double"  -> Doubles
      [] type = "boolean" -> BOOLEAN
      [] type = "string"  -> Strings

Value(type, v) == [type |-> type, value |-> v]

ValueTypes == {"integer", "double", "boolean", "string"}

IsValue(x) == x.type \in ValueTypes /\ x.value \in Values(x.type)

Faults == {"bad variant access", "logic error", "runtime error"}
Stops == {"value", "zero division", "trap"} \cup Faults

TypeOK ==
    /\ \A k \in DOMAIN stack : IsValue(stack[k])
    /\ \A k \in DOMAIN memory : IsValue(memory[k])
    /\ ip \in 1..(Len(program) + 1)
    /\ status \in {"idle", "running"} \cup Stops

-----------------------------------------------------------------------------
(* The cases of the switch: the types popValue is called with, the         *)
(* leftmost operand first (the rightmost is popped first).                 *)

IntBinary == {"ADD_INT_INT", "SUB_INT_INT", "MULT_INT_INT"}
IntDivision == {"DIV_INT_INT", "MOD_INT_INT"}
IntRelations == {"LESS_INT", "LESSEQUAL_INT", "GREATER_INT", "GREATEREQUAL_INT",
                 "EQUAL_INT", "NOTEQUAL_INT"}
DoubleBinary == {"ADD_DOUBLE_DOUBLE", "SUB_DOUBLE_DOUBLE", "MULT_DOUBLE_DOUBLE",
                 "DIV_DOUBLE_DOUBLE"}
DoubleRelations == {"LESS_DOUBLE", "LESSEQUAL_DOUBLE", "GREATER_DOUBLE",
                    "GREATEREQUAL_DOUBLE", "EQUAL_DOUBLE", "NOTEQUAL_DOUBLE"}
DoubleUnary == {"NEGATE_DOUBLE", "ABS_DOUBLE", "EXP_DOUBLE", "SIN_DOUBLE", "COS_DOUBLE"}
BoolBinary == {"AND_BOOL_BOOL", "OR_BOOL_BOOL", "EQUAL_BOOL", "NOTEQUAL_BOOL"}
Roundings == {"FLOOR_DOUBLE", "CEIL_DOUBLE", "ROUND_DOUBLE"}
ToStrings == {"TO_STRING_INT", "TO_STRING_DOUBLE", "TO_STRING_BOOL"}

Opcodes == IntBinary \cup IntDivision \cup IntRelations \cup DoubleBinary
    \cup DoubleRelations \cup DoubleUnary \cup BoolBinary \cup Roundings \cup ToStrings
    \cup {"ADD_STRING_STRING", "NEGATE_INT", "ABS_INT", "CAST_INT_DOUBLE", "NOT_BOOL"}

Pops(func) ==
    CASE func \in IntBinary \cup IntDivision \cup IntRelations -> <<"integer", "integer">>
      [] func \in DoubleBinary \cup DoubleRelations -> <<"double", "double">>
      [] func \in BoolBinary -> <<"boolean", "boolean">>
      [] func = "ADD_STRING_STRING" -> <<"string", "string">>
      [] func \in DoubleUnary \cup Roundings \cup {"TO_STRING_DOUBLE"} -> <<"double">>
      [] func \in {"NEGATE_INT", "ABS_INT", "CAST_INT_DOUBLE", "TO_STRING_INT"}
            -> <<"integer">>
      [] func \in {"NOT_BOOL", "TO_STRING_BOOL"} -> <<"boolean">>

(* The type of what a call pushes. *)
Pushes(func) ==
    CASE func \in IntBinary \cup IntDivision \cup Roundings \cup {"NEGATE_INT", "ABS_INT"}
            -> "integer"
      [] func \in DoubleBinary \cup DoubleUnary \cup {"CAST_INT_DOUBLE"} -> "double"
      [] func \in IntRelations \cup DoubleRelations \cup BoolBinary \cup {"NOT_BOOL"} -> "boolean"
      [] func \in ToStrings \cup {"ADD_STRING_STRING"} -> "string"

(* An integer result that does not fit is undefined behaviour.             *)
Fit(n) == IF n \in Ints THEN {n} ELSE Ints

(* Division and remainder of C++ truncate towards zero: the remainder has  *)
(* the sign of the dividend.                                               *)
Magnitude(n) == IF n < 0 THEN -n ELSE n

(* Mutant: quotients are rounded down. *)
QuotientRoundedDown(l, r) == (IF r < 0 THEN -l ELSE l) \div Magnitude(r)

Quotient(l, r) == LET q == Magnitude(l) \div Magnitude(r)
                  IN  IF (l < 0) = (r < 0) THEN q ELSE -q
Remainder(l, r) == l - r * Quotient(l, r)

IntOp(func, l, r) ==
    CASE func = "ADD_INT_INT"  -> l + r
      [] func = "SUB_INT_INT"  -> l - r
      [] func = "MULT_INT_INT" -> l * r
      [] func = "DIV_INT_INT"  -> Quotient(l, r)
      [] func = "MOD_INT_INT"  -> Remainder(l, r)

Relation(func, less, equal, greater) ==
    CASE func \in {"LESS_INT", "LESS_DOUBLE"} -> less
      [] func \in {"LESSEQUAL_INT", "LESSEQUAL_DOUBLE"} -> less \/ equal
      [] func \in {"GREATER_INT", "GREATER_DOUBLE"} -> greater
      [] func \in {"GREATEREQUAL_INT", "GREATEREQUAL_DOUBLE"} -> greater \/ equal
      [] func \in {"EQUAL_INT", "EQUAL_DOUBLE"} -> equal
      [] func \in {"NOTEQUAL_INT", "NOTEQUAL_DOUBLE"} -> ~equal

BoolOp(func, l, r) ==
    CASE func = "AND_BOOL_BOOL" -> l /\ r
      [] func = "OR_BOOL_BOOL"  -> l \/ r
      [] func = "EQUAL_BOOL"    -> l = r
      [] func = "NOTEQUAL_BOOL" -> l # r

(* The values a call can push, for the operands a.                         *)
Pushed(func, a) ==
    CASE func \in IntBinary \cup IntDivision ->
            {Value("integer", n) : n \in Fit(IntOp(func, a[1], a[2]))}
      [] func = "NEGATE_INT" -> {Value("integer", n) : n \in Fit(-a[1])}
      [] func = "ABS_INT" -> {Value("integer", n) : n \in Fit(Magnitude(a[1]))}
      [] func \in Roundings -> {Value("integer", n) : n \in Fit(Rounded(func, a[1]))}
      [] func = "CAST_INT_DOUBLE" -> {Value("double", ToDouble(a[1]))}
      [] func \in DoubleBinary \cup DoubleUnary -> {Value("double", DoubleOp(func, a))}
      [] func \in IntRelations ->
            {Value("boolean", Relation(func, a[1] < a[2], a[1] = a[2], a[2] < a[1]))}
      [] func \in DoubleRelations ->
            {Value("boolean", Relation(func, DoubleLess(a[1], a[2]), DoubleEqual(a[1], a[2]),
                                       DoubleLess(a[2], a[1])))}
      [] func \in BoolBinary -> {Value("boolean", BoolOp(func, a[1], a[2]))}
      [] func = "NOT_BOOL" -> {Value("boolean", ~a[1])}
      [] func \in ToStrings \cup {"ADD_STRING_STRING"} -> {Value("string", Text(func, a))}

DividesByZero(func, a) ==
    \/ func \in IntDivision /\ a[2] = 0
    \/ func = "DIV_DOUBLE_DOUBLE" /\ DoubleEqual(a[2], ZeroDouble)

(* The quotient of the smallest integer and -1 overflows; the processor    *)
(* may raise an exception, which ends the process.                         *)
MayTrap(func, a) == func \in IntDivision /\ a[1] = IntMin /\ a[2] = -1
-----------------------------------------------------------------------------
Running == status = "running"

AtOp(op) == Running /\ ip <= Len(program) /\ program[ip].op = op

(* execute is called for a program: the stack is emptied. *)
Start ==
    /\ status = "idle"
    /\ stack' = << >>
    /\ ip' = 1
    /\ status' = "running"
    /\ UNCHANGED <<program, infos, memory>>

Load ==
    /\ AtOp("LOAD")
    /\ LET id == program[ip].id
       IN  IF id \notin DOMAIN infos \/ infos[id].type \notin ValueTypes
           THEN status' = "runtime error" /\ UNCHANGED <<stack, ip>>
           ELSE IF memory[id].type # infos[id].type
           THEN status' = "bad variant access" /\ UNCHANGED <<stack, ip>>
           ELSE /\ stack' = Append(stack, memory[id])
                /\ ip' = ip + 1
                /\ UNCHANGED status
    /\ UNCHANGED <<program, infos, memory>>

Supported == program[ip].func \in Opcodes

CallUnsupported ==
    /\ AtOp("CALL")
    /\ ~Supported
    /\ status' = "runtime error"
    /\ UNCHANGED <<program, infos, memory, stack, ip>>

(* The operands of the call; position 0 and below are missing.             *)
Position(k) == Len(stack) - Len(Pops(program[ip].func)) + k

Wrong == {k \in DOMAIN Pops(program[ip].func) :
            \/ Position(k) < 1
            \/ stack[Position(k)].type # Pops(program[ip].func)[k]}

Args == [k \in DOMAIN Pops(program[ip].func) |-> stack[Position(k)].value]

(* popValue meets another type, or an empty stack, first from the right. *)
CallFaults ==
    /\ AtOp("CALL") /\ Supported
    /\ Wrong # {}
    /\ status' = IF Position(Max(Wrong)) < 1 THEN "logic error" ELSE "bad variant access"
    /\ stack' = SubSeq(stack, 1, Position(Max(Wrong)))
    /\ UNCHANGED <<program, infos, memory, ip>>

CallDividesByZero ==
    /\ AtOp("CALL") /\ Supported
    /\ Wrong = {}
    /\ DividesByZero(program[ip].func, Args)
    /\ status' = "zero division"
    /\ stack' = SubSeq(stack, 1, Position(0))
    /\ UNCHANGED <<program, infos, memory, ip>>

CallTraps ==
    /\ AtOp("CALL") /\ Supported
    /\ Wrong = {}
    /\ MayTrap(program[ip].func, Args)
    /\ status' = "trap"
    /\ stack' = SubSeq(stack, 1, Position(0))
    /\ UNCHANGED <<program, infos, memory, ip>>

(* Mutant: the leftmost operand is read, not popped. *)
CallPeeks ==
    /\ AtOp("CALL") /\ Supported
    /\ Wrong = {}
    /\ ~DividesByZero(program[ip].func, Args)
    /\ \E v \in Pushed(program[ip].func, Args) :
          stack' = Append(SubSeq(stack, 1, Position(1)), v)
    /\ ip' = ip + 1
    /\ UNCHANGED <<program, infos, memory, status>>

Call ==
    /\ AtOp("CALL") /\ Supported
    /\ Wrong = {}
    /\ ~DividesByZero(program[ip].func, Args)
    /\ \E v \in Pushed(program[ip].func, Args) :
          stack' = Append(SubSeq(stack, 1, Position(0)), v)
    /\ ip' = ip + 1
    /\ UNCHANGED <<program, infos, memory, status>>

(* The result is the top of the stack, whatever is below it. *)
Return ==
    /\ Running /\ ip > Len(program)
    /\ status' = IF stack = << >> THEN "logic error" ELSE "value"
    /\ UNCHANGED <<program, infos, memory, stack, ip>>

Step == Start \/ Load \/ CallUnsupported \/ CallFaults \/ CallDividesByZero \/ CallTraps \/ Call \/ Return
=============================================================================
