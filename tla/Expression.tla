------------------------------- MODULE Expression -------------------------------
(***************************************************************************)
(* An expression from its tokens to its value: PostfixCompiler, whose      *)
(* program PostfixInterpreter executes.  The two meet in the program, in   *)
(* the entries of the variable storage that the literals were added to,    *)
(* and in the values of those entries.                                     *)
(***************************************************************************)
EXTENDS PostfixCompiler, Integers

CONSTANTS IntMin, IntMax, Doubles, ZeroDouble,
          DoubleLess(_, _), DoubleEqual(_, _), DoubleOp(_, _),
          ToDouble(_), Rounded(_, _), Strings, Text(_, _),
          Parsed(_, _),     \* the value of a literal: its type and its text
          Samples(_)        \* the values tried for a variable of a type

VARIABLES memory,       \* the values in the variable storage (mMemory)
          values,       \* the interpreter's stack of values
          ip,
          status

interpreterVars == <<memory, values, ip, status>>
allVars == <<vars, memory, values, ip, status>>

Interpreter == INSTANCE PostfixInterpreter WITH program <- opList, stack <- values

ExprInit ==
    /\ Init
    /\ memory = << >>
    /\ values = << >>
    /\ ip = 1
    /\ status = "compiling"

Compile == Step /\ UNCHANGED interpreterVars

(* The values of an entry when the expression is executed: that of the     *)
(* literal or of the constant, and for a variable anything that the        *)
(* statements before have assigned or read.                                *)
ValuesOf(info) ==
    {Interpreter!Value(info.type, v) :
        v \in IF info.isConstant THEN {Parsed(info.type, info.value)} ELSE Samples(info.type)}

Memories ==
    LET first[k \in 0..Len(infos)] ==
            IF k = 0 THEN {<< >>}
            ELSE {Append(m, v) : m \in first[k - 1], v \in ValuesOf(infos[k])}
    IN  first[Len(infos)]

ReachStatement ==
    /\ pc = "ok"
    /\ status = "compiling"
    /\ memory' \in Memories
    /\ status' = "idle"
    /\ UNCHANGED <<vars, values, ip>>

Execute == Interpreter!Step /\ UNCHANGED vars

Finished ==
    /\ pc \in Outcomes \ {"ok"} \/ status \in Interpreter!Stops
    /\ UNCHANGED allVars

ExprNext == Compile \/ ReachStatement \/ Execute \/ Finished

ExprSpec == ExprInit /\ [][ExprNext]_allVars
=============================================================================
