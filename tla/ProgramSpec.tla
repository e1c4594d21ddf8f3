------------------------------- MODULE ProgramSpec -------------------------------
(***************************************************************************)
(* What the program's text promises, independently of how it is compiled   *)
(* and executed: a text that the grammar gives no reading is rejected and  *)
(* nothing of it is executed; one with a reading is executed statement by  *)
(* statement as README.md says of them.  What is left to do is a sequence  *)
(* of statements as they are read, with their expressions as trees.        *)
(***************************************************************************)
EXTENDS ProgramGrammar, Integers

CONSTANTS Words, IntMin, IntMax, Doubles, ZeroDouble, DoubleLess(_, _), DoubleEqual(_, _),
          DoubleOp(_, _), ToDouble(_), Rounded(_, _), Text(_, _),
          Parsed(_, _), Extract(_, _), EmptyString

VARIABLES source, state, todo, memory, input, failed, output

vars == <<source, state, todo, memory, input, failed, output>>

Meanings == INSTANCE ExpressionMeaning WITH Variables <- << >>

Init ==
    /\ source \in Seq([type : STRING, value : STRING])
    /\ state = "given"
    /\ todo = << >>
    /\ memory = << >>
    /\ input \in Words
    /\ failed = FALSE
    /\ output = << >>

Reject ==
    /\ state = "given"
    /\ state' = "rejected"
    /\ Programs(source) = {}
    /\ UNCHANGED <<source, todo, memory, input, failed, output>>

Entered(type, v) == [type |-> type, value |-> v]

(* Variables start as zero, false and the empty string.                    *)
Initially(entry) ==
    Entered(entry.type,
        IF entry.isConstant THEN Parsed(entry.type, entry.value)
        ELSE [integer |-> 0, double |-> ZeroDouble, boolean |-> FALSE,
              string |-> EmptyString][entry.type])

Accept ==
    /\ state = "given"
    /\ state' = "running"
    /\ \E p \in Programs(source) :
          /\ todo' = <<p.main>>
          /\ memory' = [id \in DOMAIN p.storage |-> Initially(p.storage[id])]
    /\ UNCHANGED <<source, input, failed, output>>

(* What the first expression of the statement s may come to.               *)
Evaluations(s) == Meanings!Outcomes(s.exprs[1], memory)
Values(s) == {x \in Evaluations(s) : x.kind = "value"}

(* The steps that begin with the statement s, when "rest" is to be done    *)
(* after it.                                                               *)
Block(s, rest) ==
    /\ s.kind = "Block"
    /\ todo' = s.body \o rest
    /\ UNCHANGED <<source, state, memory, input, failed, output>>

IsWrite(s) == s.kind \in {"Write", "WriteLn"}

Write(s, rest) ==
    /\ IsWrite(s) /\ s.exprs # << >>
    /\ \E x \in Values(s) : output' = Append(output, Entered(x.type, x.value))
    /\ todo' = <<[s EXCEPT !.exprs = Tail(@)]>> \o rest
    /\ UNCHANGED <<source, state, memory, input, failed>>

EndWrite(s, rest) ==
    /\ IsWrite(s) /\ s.exprs = << >>
    /\ output' = output \o (IF s.kind = "WriteLn" THEN <<"line end">> ELSE << >>)
    /\ todo' = rest
    /\ UNCHANGED <<source, state, memory, input, failed>>

Assign(s, rest) ==
    /\ s.kind = "Assign"
    /\ \E x \in Values(s) : memory' = [memory EXCEPT ![s.id] = Entered(x.type, x.value)]
    /\ todo' = rest
    /\ UNCHANGED <<source, state, input, failed, output>>

(* What a read stores is settled by the word as long as the input is good, *)
(* and afterwards only by the type of the variable.                        *)
AnyValue(type) ==
    CASE type = "integer" -> IntMin..IntMax
      [] type = "double" -> Doubles
      [] type = "boolean" -> BOOLEAN
      [] type = "string" -> {EmptyString}

Read(s, rest) ==
    /\ s.kind = "Read"
    /\ LET type == memory[s.id].type
           good == ~failed /\ input # << >>
           x == Extract(type, Head(input))
       IN  /\ \E v \in IF good THEN {x.value} ELSE AnyValue(type) :
                  memory' = [memory EXCEPT ![s.id] = Entered(type, v)]
           /\ failed' = (~good \/ x.failed)
           /\ input' = IF good THEN x.rest \o Tail(input) ELSE input
    /\ todo' = rest
    /\ UNCHANGED <<source, state, output>>

If(s, rest) ==
    /\ s.kind = "If"
    /\ \E x \in Values(s) :
          todo' = (IF x.value THEN <<s.body[1]>> ELSE Tail(s.body)) \o rest
    /\ UNCHANGED <<source, state, memory, input, failed, output>>

While(s, rest) ==
    /\ s.kind = "While"
    /\ \E x \in Values(s) : todo' = IF x.value THEN s.body \o <<s>> \o rest ELSE rest
    /\ UNCHANGED <<source, state, memory, input, failed, output>>

(* An expression that comes to an error ends the program.                  *)
Fail(s) ==
    /\ s.exprs # << >>
    /\ \E x \in Evaluations(s) : x.kind # "value" /\ state' = x.kind
    /\ UNCHANGED <<source, todo, memory, input, failed, output>>

Perform ==
    /\ state = "running"
    /\ \E statements \in {todo} \ {<< >>} :
          LET s == Head(statements)
              rest == Tail(statements)
          IN  \/ Block(s, rest) \/ Write(s, rest) \/ EndWrite(s, rest) \/ Assign(s, rest)
              \/ Read(s, rest) \/ If(s, rest) \/ While(s, rest) \/ Fail(s)

Finish ==
    /\ state = "running" /\ todo = << >>
    /\ state' = "finished"
    /\ UNCHANGED <<source, todo, memory, input, failed, output>>

Next == Reject \/ Accept \/ Perform \/ Finish

Spec == Init /\ [][Next]_vars
=============================================================================
