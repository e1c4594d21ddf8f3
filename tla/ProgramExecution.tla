----------------------------- MODULE ProgramExecution -----------------------------
(***************************************************************************)
(* PostfixInterpreter given any program, well formed or not, as its tests  *)
(* do: an Intr::Program is a public type that nothing checks before it is  *)
(* executed.                                                               *)
(***************************************************************************)
EXTENDS PostfixInterpreter, TLC

CONSTANTS Programs,     \* the programs that are executed
          Storages      \* the variable storages: records of infos and memory

IsStorage(s) ==
    /\ DOMAIN s.memory = DOMAIN s.infos
    /\ \A id \in DOMAIN s.infos :
          IsValue(s.memory[id]) /\ s.memory[id].type = s.infos[id].type

(* registerVariable and setValue keep each value in the type of its entry. *)
ASSUME ExecutionAssumption ==
    /\ \A p \in Programs : p \in Seq([op : {"LOAD"}, id : Nat] \cup [op : {"CALL"}, func : STRING])
    /\ \A s \in Storages : IsStorage(s)

Init ==
    /\ program \in Programs
    /\ \E s \in Storages : infos = s.infos /\ memory = s.memory
    /\ stack = << >>
    /\ ip = 1
    /\ status = "idle"

Stopped == status \in Stops /\ UNCHANGED vars

Next == Step \/ Stopped

Spec == Init /\ [][Next]_vars
-----------------------------------------------------------------------------
IllTyped == <<"illTyped">>

(* The types on the stack after an operation, found from those before it.  *)
TypesAfter(types, operation) ==
    IF operation.op = "LOAD"
    THEN IF types # IllTyped /\ operation.id \in DOMAIN infos
         THEN Append(types, infos[operation.id].type) ELSE IllTyped
    ELSE LET func == operation.func
             rest == Len(types) - Len(Pops(func))
         IN  IF func \in Opcodes /\ rest >= 0 /\ SubSeq(types, rest + 1, Len(types)) = Pops(func)
             THEN Append(SubSeq(types, 1, rest), Pushes(func)) ELSE IllTyped

(* The types on the stack after the first k operations. *)
StaticTypes ==
    LET after[k \in 0..Len(program)] ==
            IF k = 0 THEN << >> ELSE TypesAfter(after[k - 1], program[k])
    IN  after

(* The types of the values never depend on the values: at each operation   *)
(* the stack has the types found statically, and a program that has none   *)
(* is stopped by the typed pops at its first operation that has none; none *)
(* of its operations is executed on values of other types                  *)
(* (postfix_interpreter.h:18-24, postfix_interpreter.cpp:5-292).           *)
TypesAreStatic ==
    /\ status \in {"running", "value"} =>
            [k \in DOMAIN stack |-> stack[k].type] = StaticTypes[ip - 1]
    /\ status \in Faults /\ ip <= Len(program) => StaticTypes[ip] = IllTyped
    /\ status \in Faults /\ ip > Len(program) => StaticTypes[ip - 1] = << >>

=============================================================================
