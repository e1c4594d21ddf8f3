---------------------------- MODULE MCProgramExecution ----------------------------
(***************************************************************************)
(* ProgramExecution on every program of at most three operations over a    *)
(* selection of operations of every signature, of five operations over a   *)
(* smaller one, and on each operation with operands of every type.         *)
(***************************************************************************)
EXTENDS ProgramExecution

MCIntMin == -2
MCIntMax == 1

(* Doubles: integers and NaN; their operations are left uninterpreted. *)
NaN == 9
MCDoubles == {-1, 0, 1, NaN}
MCZeroDouble == 0
MCDoubleLess(l, r) == NaN \notin {l, r} /\ l < r
MCDoubleEqual(l, r) == NaN \notin {l, r} /\ l = r
MCDoubleOp(func, a) == IF a[1] = 0 THEN NaN ELSE a[1]
MCToDouble(n) == IF n < 0 THEN -1 ELSE n
MCRounded(func, x) == x

MCStrings == {"s", "t"}
MCText(func, a) == IF func = "ADD_STRING_STRING" THEN "t" ELSE "s"

MCStorages ==
    {[infos |-> <<[type |-> "integer"], [type |-> "double"], [type |-> "boolean"],
                  [type |-> "string"], [type |-> "integer"]>>,
      memory |-> <<Value("integer", n), Value("double", d), Value("boolean", TRUE),
                   Value("string", "s"), Value("integer", -1)>>] : n \in {-2, 0, 1}, d \in {0, NaN}}

LoadOf(id) == [op |-> "LOAD", id |-> id]
CallOf(func) == [op |-> "CALL", func |-> func]

Selection ==
    {LoadOf(id) : id \in 1..6} \cup
    {CallOf(f) : f \in {"SUB_INT_INT", "DIV_INT_INT", "NEGATE_INT", "LESS_DOUBLE",
                        "DIV_DOUBLE_DOUBLE", "ADD_STRING_STRING", "TO_STRING_BOOL",
                        "NOT_BOOL", "AND_BOOL_BOOL", "CAST_INT_DOUBLE", "UNKNOWN"}}

EachOpcode ==
    {<<LoadOf(l), LoadOf(r), CallOf(f)>> : l \in 1..5, r \in 1..5, f \in Opcodes}

Few == {LoadOf(1), LoadOf(2)} \cup
       {CallOf(f) : f \in {"DIV_INT_INT", "LESS_INT", "DIV_DOUBLE_DOUBLE", "CAST_INT_DOUBLE"}}

MCPrograms == EachOpcode \cup UNION {[1..n -> Selection] : n \in 0..3} \cup [1..5 -> Few]
=============================================================================
