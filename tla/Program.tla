--------------------------------- MODULE Program ---------------------------------
(***************************************************************************)
(* A program from its tokens to its end: what the compiler application     *)
(* (compiler_app/main.cpp) and ExecutionDriver::execute                    *)
(* (src/execution_driver.cpp) do with it.  ProgramCompiler's nodes and     *)
(* variable storage are what ExecutionNodes executes.  A text in which the *)
(* lexer finds an error is reported before, and nothing more is done.      *)
(***************************************************************************)
EXTENDS ProgramCompiler

CONSTANTS IntMin, IntMax, Doubles, ZeroDouble,
          DoubleLess(_, _), DoubleEqual(_, _), DoubleOp(_, _),
          ToDouble(_), Rounded(_, _), Strings, Text(_, _),
          Parsed(_, _),         \* the value of a literal: its type and its text
          Extract(_, _), EmptyString,
          Words                 \* what the user may enter

VARIABLES stage,    \* "compiling", "executing", or how the caller ended
          memory, code, values, ip, status,
          frames, input, failed, output, execution

executionVars == <<memory, code, values, ip, status, frames, input, failed, output, execution>>
systemVars == <<allVars, stage, executionVars>>

Execution == INSTANCE ExecutionNodes
    WITH program <- code, stack <- values, outcome <- execution

(* The types and functions that initializeContext registers are those of   *)
(* the interpreter: a function takes and gives the types its operation     *)
(* pops and pushes.                                                        *)
ASSUME OperationsAssumption ==
    /\ DataTypes = Execution!ValueTypes
    /\ \A func \in Range(Functions.functions) :
          /\ func.id \in Execution!Opcodes
          /\ func.args = Execution!Pops(func.id) /\ func.ret = Execution!Pushes(func.id)

SystemInit ==
    /\ ProgramInit
    /\ stage = "compiling"
    /\ input \in Words
    /\ failed = FALSE /\ output = << >>
    /\ memory = << >> /\ code = << >> /\ values = << >> /\ ip = 1 /\ status = "idle"
    /\ frames = << >> /\ execution = "executing"

CompileProgram ==
    /\ stage = "compiling"
    /\ ProgramStep
    /\ UNCHANGED <<stage, executionVars>>

ReportSyntaxError ==
    /\ stage = "compiling" /\ outcome = "syntax error"
    /\ stage' = "syntax error reported"
    /\ UNCHANGED <<allVars, executionVars>>

(* The value a variable is registered with. *)
Default(type) ==
    CASE type = "integer" -> 0
      [] type = "double" -> ZeroDouble
      [] type = "boolean" -> FALSE
      [] type = "string" -> EmptyString

(* Mutant: every entry is registered with the integer 0. *)
InitialZero(info) == Execution!Value("integer", 0)

Initial(info) ==
    Execution!Value(info.type,
        IF info.isConstant THEN Parsed(info.type, info.value) ELSE Default(info.type))

ExecuteProgram ==
    /\ stage = "compiling" /\ outcome = "ok"
    /\ stage' = "executing"
    /\ memory' = [id \in DOMAIN infos |-> Initial(infos[id])]
    /\ frames' = Execution!Execute(root)
    /\ UNCHANGED <<allVars, code, values, ip, status, input, failed, output, execution>>

Executing ==
    /\ stage = "executing"
    /\ Execution!ExecuteStep
    /\ UNCHANGED <<stage, control, names, typeName, node, outcome, source, position,
                   tokens, members, memberIndex, cur, stack, blocks, types, opList,
                   argCount, call, pc>>

(* The application catches the strings that are thrown and reports them,   *)
(* but no exception of another type, from the compiler or from the nodes.  *)
ApplicationEnds ==
    /\ \/ /\ stage = "compiling" /\ outcome \in Failures
          /\ stage' = "crashed"
       \/ /\ stage = "executing" /\ execution # "executing"
          /\ stage' = CASE execution = "done" -> "finished"
                        [] execution = "zero division" -> "runtime error reported"
                        [] OTHER -> "crashed"
    /\ UNCHANGED <<allVars, executionVars>>

(* The driver, which does the same until here, catches nothing.            *)
DriverEnds ==
    /\ stage = "executing" /\ execution # "executing"
    /\ stage' = IF execution = "done" THEN "table returned" ELSE "thrown out of the driver"
    /\ UNCHANGED <<allVars, executionVars>>

Stages == {"compiling", "executing", "finished", "syntax error reported",
           "runtime error reported", "crashed", "table returned", "thrown out of the driver"}
Ended == stage \notin {"compiling", "executing"} /\ UNCHANGED systemVars

SystemStep ==
    \/ CompileProgram \/ ReportSyntaxError \/ ExecuteProgram \/ Executing
    \/ ApplicationEnds \/ DriverEnds

SystemNext == SystemStep \/ Ended

SystemSpec == SystemInit /\ [][SystemNext]_systemVars

(* Both callers run on one thread, which nothing interrupts. *)
FairSystemSpec == SystemSpec /\ WF_systemVars(SystemStep)
-----------------------------------------------------------------------------
SystemTypeOK ==
    /\ stage \in Stages
    /\ stage = "executing" =>
          /\ Execution!TypeOK
          /\ \A id \in DOMAIN infos : memory[id].type = infos[id].type
          /\ \A k \in DOMAIN frames : frames[k].node \in 0..Len(nodes)

(* No exception escapes from the application, which catches nothing but    *)
(* strings, and none but the error of a division from the driver, which    *)
(* catches nothing: the nodes only ever store values of the variable's     *)
(* type and decide by booleans, though only the compiler checks that       *)
(* (main.cpp:51-59, execution_driver.cpp:23, execution_node.cpp:79, 92-104,*)
(* 119).  A trap is excepted.                                              *)
OnlyTrapsCrash ==
    /\ stage = "crashed" => execution = "trap"
    /\ stage = "thrown out of the driver" => execution \in {"trap", "zero division"}
=============================================================================
