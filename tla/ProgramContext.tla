------------------------------ MODULE ProgramContext ------------------------------
(***************************************************************************)
(* The types and functions every program starts with:                      *)
(* ProgramCompiler::initializeContext                                      *)
(* (src/expression_compiler/program_compiler.cpp).  The identifier of a    *)
(* function is the name of its operation in PostfixInterpreter::Opcodes.   *)
(***************************************************************************)
EXTENDS Sequences

ContextTypes == {"integer", "double", "boolean", "string"}

LOCAL Function(name, ret, args, id) ==
    [name |-> name, args |-> args, ret |-> ret, id |-> id, isCast |-> FALSE]

LOCAL Int2 == <<"integer", "integer">>
LOCAL Double2 == <<"double", "double">>
LOCAL Bool2 == <<"boolean", "boolean">>

ArithmeticFunctions == <<
    Function("$operator+", "string", <<"string", "string">>, "ADD_STRING_STRING"),
    Function("$operator+", "integer", Int2, "ADD_INT_INT"),
    Function("$operator+", "double", Double2, "ADD_DOUBLE_DOUBLE"),
    Function("$operator-", "integer", Int2, "SUB_INT_INT"),
    Function("$operator-", "double", Double2, "SUB_DOUBLE_DOUBLE"),
    Function("$operator*", "integer", Int2, "MULT_INT_INT"),
    Function("$operator*", "double", Double2, "MULT_DOUBLE_DOUBLE"),
    Function("$operatordiv", "integer", Int2, "DIV_INT_INT"),
    Function("$operatormod", "integer", Int2, "MOD_INT_INT"),
    Function("$operator/", "double", Double2, "DIV_DOUBLE_DOUBLE"),
    Function("$operator-", "integer", <<"integer">>, "NEGATE_INT"),
    Function("$operator-", "double", <<"double">>, "NEGATE_DOUBLE") >>

RelationalFunctions == <<
    Function("$operator<", "boolean", Int2, "LESS_INT"),
    Function("$operator<", "boolean", Double2, "LESS_DOUBLE"),
    Function("$operator<=", "boolean", Int2, "LESSEQUAL_INT"),
    Function("$operator<=", "boolean", Double2, "LESSEQUAL_DOUBLE"),
    Function("$operator>", "boolean", Int2, "GREATER_INT"),
    Function("$operator>", "boolean", Double2, "GREATER_DOUBLE"),
    Function("$operator>=", "boolean", Int2, "GREATEREQUAL_INT"),
    Function("$operator>=", "boolean", Double2, "GREATEREQUAL_DOUBLE"),
    Function("$operator=", "boolean", Int2, "EQUAL_INT"),
    Function("$operator=", "boolean", Double2, "EQUAL_DOUBLE"),
    Function("$operator=", "boolean", Bool2, "EQUAL_BOOL"),
    Function("$operator<>", "boolean", Int2, "NOTEQUAL_INT"),
    Function("$operator<>", "boolean", Double2, "NOTEQUAL_DOUBLE"),
    Function("$operator<>", "boolean", Bool2, "NOTEQUAL_BOOL") >>

LogicalFunctions == <<
    Function("$operatorand", "boolean", Bool2, "AND_BOOL_BOOL"),
    Function("$operatoror", "boolean", Bool2, "OR_BOOL_BOOL"),
    Function("$operatornot", "boolean", <<"boolean">>, "NOT_BOOL") >>

(* Mutant: doubles are cast into integers, too. *)
CastFunctionsBothWays == <<
    [Function("$cast", "double", <<"integer">>, "CAST_INT_DOUBLE")
        EXCEPT !.isCast = TRUE],
    [Function("$cast", "integer", <<"double">>, "CAST_DOUBLE_INT")
        EXCEPT !.isCast = TRUE] >>

CastFunctions == <<
    [Function("$cast", "double", <<"integer">>, "CAST_INT_DOUBLE")
        EXCEPT !.isCast = TRUE] >>

NamedFunctions == <<
    Function("abs", "integer", <<"integer">>, "ABS_INT"),
    Function("abs", "double", <<"double">>, "ABS_DOUBLE"),
    Function("exp", "double", <<"double">>, "EXP_DOUBLE"),
    Function("sin", "double", <<"double">>, "SIN_DOUBLE"),
    Function("cos", "double", <<"double">>, "COS_DOUBLE"),
    Function("floor", "integer", <<"double">>, "FLOOR_DOUBLE"),
    Function("ceil", "integer", <<"double">>, "CEIL_DOUBLE"),
    Function("round", "integer", <<"double">>, "ROUND_DOUBLE"),
    Function("toString", "string", <<"integer">>, "TO_STRING_INT"),
    Function("toString", "string", <<"double">>, "TO_STRING_DOUBLE"),
    Function("toString", "string", <<"boolean">>, "TO_STRING_BOOL") >>

(* The functions in the order in which initializeContext registers them. *)
ContextFunctions == ArithmeticFunctions \o RelationalFunctions \o LogicalFunctions
                        \o CastFunctions \o NamedFunctions

ContextIds == {ContextFunctions[i].id : i \in DOMAIN ContextFunctions}
=============================================================================
