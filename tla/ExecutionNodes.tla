------------------------------ MODULE ExecutionNodes ------------------------------
(***************************************************************************)
(* Execution of a compiled program: the execute functions of the nodes     *)
(* (src/execution_node.cpp), from the root on                              *)
(* (src/expression_interpreter/program_interpreter.cpp).                   *)
(*                                                                         *)
(* The functions call each other recursively.  A frame says which node a   *)
(* call executes, or the rest of which chain of siblings; the first frame  *)
(* is that of the call that runs.  Expressions are executed operation by   *)
(* operation, by PostfixInterpreter.                                       *)
(*                                                                         *)
(* std::cin is the sequence of the words that are left and its fail flag,  *)
(* std::cout the sequence of the values and the line ends written.         *)
(***************************************************************************)
EXTENDS PostfixInterpreter

CONSTANTS
    Extract(_, _),  \* what >> makes of a word for a type: the value it stores,
                    \* whether it fails, and the words it leaves
    EmptyString

VARIABLES nodes,    \* of records: kind, next, child, id, programs
          root,
          frames,
          input, failed, output,
          outcome   \* "executing", or how the call for the root ended

nodeVars == <<nodes, root>>
streams == <<input, failed, output>>
interpreterVars == <<program, stack, ip, status>>

LineEnd == "line end"

(* "arg" is the argument of a write that is due. *)
Frame(call, n) == [call |-> call, node |-> n, arg |-> 1]
Execute(n) == <<Frame("execute", n)>>
Siblings(n) == <<Frame("siblings", n)>>

Due == Head(frames)
DueNode == nodes[Due.node]

Calls(call) == outcome = "executing" /\ frames # << >> /\ Due.call = call
Executes(kind) == Calls("execute") /\ DueNode.kind = kind

ReplaceBy(calls) == frames' = calls \o Tail(frames)
-----------------------------------------------------------------------------
(* Mutant: the statement is executed again. *)
NextSiblingRepeats ==
    /\ Calls("siblings")
    /\ ReplaceBy(IF Due.node = 0 THEN << >> ELSE Execute(Due.node) \o Siblings(Due.node))
    /\ UNCHANGED <<interpreterVars, nodeVars, infos, memory, streams, outcome>>

NextSibling ==
    /\ Calls("siblings")
    /\ ReplaceBy(IF Due.node = 0 THEN << >> ELSE Execute(Due.node) \o Siblings(DueNode.next))
    /\ UNCHANGED <<interpreterVars, nodeVars, infos, memory, streams, outcome>>

Block ==
    /\ Executes("Block")
    /\ ReplaceBy(Siblings(DueNode.child))
    /\ UNCHANGED <<interpreterVars, nodeVars, infos, memory, streams, outcome>>

(* PostfixInterpreter::execute is called for the expression that is due.   *)
Evaluate ==
    /\ Calls("execute") /\ status = "idle"
    /\ Due.arg \in DOMAIN DueNode.programs
    /\ program' = DueNode.programs[Due.arg]
    /\ stack' = << >>
    /\ ip' = 1
    /\ status' = "running"
    /\ UNCHANGED <<nodeVars, frames, infos, memory, streams, outcome>>

Interpret ==
    /\ outcome = "executing"
    /\ \/ Load \/ CallUnsupported \/ CallFaults \/ CallDividesByZero \/ CallTraps
       \/ Call \/ Return
    /\ UNCHANGED <<nodeVars, frames, streams, outcome>>

Evaluated == status = "value" /\ status' = "idle" /\ UNCHANGED <<program, stack, ip>>
Result == stack[Len(stack)]

(* A division by zero is thrown on as a string; other exceptions pass      *)
(* through all calls, and a trap ends the process.                         *)
Throw ==
    /\ Calls("execute")
    /\ status \in Stops \ {"value"}
    /\ outcome' = status
    /\ UNCHANGED <<interpreterVars, nodeVars, frames, infos, memory, streams>>

PrintArgument ==
    /\ Executes("Write") \/ Executes("WriteLn")
    /\ Evaluated
    /\ output' = Append(output, Result)
    /\ ReplaceBy(<<[Due EXCEPT !.arg = @ + 1]>>)
    /\ UNCHANGED <<nodeVars, infos, memory, input, failed, outcome>>

EndWrite ==
    /\ Executes("Write") \/ Executes("WriteLn")
    /\ Due.arg > Len(DueNode.programs)
    /\ output' = IF DueNode.kind = "WriteLn" THEN Append(output, LineEnd) ELSE output
    /\ ReplaceBy(<< >>)
    /\ UNCHANGED <<interpreterVars, nodeVars, infos, memory, input, failed, outcome>>

(* VariablesStorage::setValue. *)
SetValue(id, x) ==
    IF id \notin DOMAIN infos \/ x.type # infos[id].type \/ infos[id].isConstant
    THEN outcome' = "runtime error" /\ UNCHANGED memory
    ELSE memory' = [memory EXCEPT ![id] = x] /\ UNCHANGED outcome

Assign ==
    /\ Executes("Assign")
    /\ Evaluated
    /\ SetValue(DueNode.id, Result)
    /\ ReplaceBy(<< >>)
    /\ UNCHANGED <<nodeVars, infos, streams>>

(* Mutant: a failed read leaves the stream good. *)
ReadForgetsFailure ==
    /\ Executes("Read")
    /\ LET type == infos[DueNode.id].type
           x == Extract(type, Head(input))
       IN  IF failed \/ input = << >>
           THEN /\ \E v \in IF type = "string" THEN {EmptyString} ELSE Values(type) :
                      SetValue(DueNode.id, Value(type, v))
                /\ failed' = TRUE
                /\ UNCHANGED input
           ELSE /\ SetValue(DueNode.id, Value(type, x.value))
                /\ input' = x.rest \o Tail(input)
                /\ UNCHANGED failed
    /\ ReplaceBy(<< >>)
    /\ UNCHANGED <<interpreterVars, nodeVars, infos, output>>

(* A word that is no value of the type is replaced by a default or a limit *)
(* and the stream fails.  From then on, and at the end of the input, the   *)
(* local variable that is stored is not initialized, but for a string.     *)
Read ==
    /\ Executes("Read")
    /\ LET type == infos[DueNode.id].type
           x == Extract(type, Head(input))
       IN  IF failed \/ input = << >>
           THEN /\ \E v \in IF type = "string" THEN {EmptyString} ELSE Values(type) :
                      SetValue(DueNode.id, Value(type, v))
                /\ failed' = TRUE
                /\ UNCHANGED input
           ELSE /\ SetValue(DueNode.id, Value(type, x.value))
                /\ input' = x.rest \o Tail(input)
                /\ failed' = x.failed
    /\ ReplaceBy(<< >>)
    /\ UNCHANGED <<interpreterVars, nodeVars, infos, output>>

(* The else clause is the next sibling of the then clause. *)
If ==
    /\ Executes("If")
    /\ Evaluated
    /\ IF Result.type # "boolean"
       THEN outcome' = "bad variant access" /\ UNCHANGED frames
       ELSE LET clause == IF Result.value THEN DueNode.child ELSE nodes[DueNode.child].next
            IN  ReplaceBy(IF clause = 0 THEN << >> ELSE Execute(clause)) /\ UNCHANGED outcome
    /\ UNCHANGED <<nodeVars, infos, memory, streams>>

While ==
    /\ Executes("While")
    /\ Evaluated
    /\ IF Result.type # "boolean"
       THEN outcome' = "bad variant access" /\ UNCHANGED frames
       ELSE /\ frames' = IF Result.value THEN Execute(DueNode.child) \o frames ELSE Tail(frames)
            /\ UNCHANGED outcome
    /\ UNCHANGED <<nodeVars, infos, memory, streams>>

ReturnFromRoot ==
    /\ outcome = "executing" /\ frames = << >>
    /\ outcome' = "done"
    /\ UNCHANGED <<interpreterVars, nodeVars, frames, infos, memory, streams>>

ExecuteStep ==
    \/ NextSibling \/ Block \/ Evaluate \/ Interpret \/ Throw \/ PrintArgument \/ EndWrite
    \/ Assign \/ Read \/ If \/ While \/ ReturnFromRoot
=============================================================================
