------------------------------ MODULE ExecutionProofs ------------------------------
(***************************************************************************)
(* Proofs about ProgramExecution, for programs of any length and integers, *)
(* doubles and strings of any kind: the types on the stack are those found *)
(* without executing the program.                                          *)
(***************************************************************************)
EXTENDS ProgramExecution, WellFoundedInduction, SequenceTheorems, TLAPS

Operations == [op : {"LOAD"}, id : Nat] \cup [op : {"CALL"}, func : STRING]

TypesOf == [k \in DOMAIN stack |-> stack[k].type]

IsSeq(s) == \E S : s \in Seq(S)

StackInv ==
    /\ program \in Seq(Operations) /\ ip \in 1..(Len(program) + 1)
    /\ DOMAIN memory = DOMAIN infos
    /\ \A id \in DOMAIN infos : infos[id].type \in ValueTypes /\ memory[id].type = infos[id].type
    /\ status \in {"running", "value"} =>
            IsSeq(stack) /\ \A k \in DOMAIN stack : stack[k].type \in ValueTypes
    /\ status = "idle" => ip = 1
    /\ status = "value" => ip = Len(program) + 1

ExecutionInv == StackInv /\ TypesAreStatic
-----------------------------------------------------------------------------
LEMMA Least == ASSUME NEW S \in SUBSET Nat, S # {} PROVE \E x \in S : \A y \in S : x <= y
<1> DEFINE R == OpToRel(<, Nat)
<1>1. IsWellFoundedOn(R, Nat)
  BY NatLessThanWellFounded
<1>2. \A x, y \in Nat : <<y, x>> \in R <=> y < x
  BY DEF OpToRel
<1> HIDE DEF R
<1>3. PICK x \in S : \A y \in S : ~(<<y, x>> \in R)
  BY <1>1, WFMin
<1>4. \A y \in S : ~(y < x)
  BY <1>2, <1>3
<1> QED
  BY <1>4

(* The types after the first n operations, by their definition.            *)
IsTyping(f, n) ==
    f = [k \in 0..n |-> IF k = 0 THEN << >> ELSE TypesAfter(f[k - 1], program[k])]

(* StaticTypes is defined by recursion: there is such a function, since a  *)
(* shortest program without one would be one operation longer than one     *)
(* that has one.                                                           *)
LEMMA TypingExists == ASSUME NEW m \in Nat PROVE \E f : IsTyping(f, m)
<1> DEFINE None == {n \in Nat : ~\E f : IsTyping(f, n)}
<1>1. SUFFICES ASSUME None # {} PROVE FALSE
  OBVIOUS
<1>2. PICK n \in None : \A y \in None : n <= y
  <2>1. None \in SUBSET Nat
    OBVIOUS
  <2> HIDE DEF None
  <2> QED
    BY <1>1, <2>1, Least
<1>3. CASE n = 0
  <2> DEFINE f == [k \in 0..0 |-> << >>]
  <2>1. IsTyping(f, 0)
    BY DEF IsTyping
  <2> QED
    BY <1>2, <1>3, <2>1
<1>4. CASE n # 0
  <2>1. n - 1 \in Nat /\ n - 1 \notin None
    BY <1>2, <1>4
  <2>2. PICK f : IsTyping(f, n - 1)
    BY <2>1
  <2> DEFINE g == [k \in 0..n |-> IF k = n THEN TypesAfter(f[n - 1], program[n]) ELSE f[k]]
  <2>3. \A k \in 0..(n - 1) : g[k] = f[k]
    BY <2>1
  <2>4. \A k \in 0..(n - 1) : f[k] = IF k = 0 THEN << >> ELSE TypesAfter(f[k - 1], program[k])
    BY <2>2 DEF IsTyping
  <2>5. ASSUME NEW k \in 0..n
        PROVE  g[k] = IF k = 0 THEN << >> ELSE TypesAfter(g[k - 1], program[k])
    <3>1. CASE k = n
      <4>1. g[n - 1] = f[n - 1] /\ g[n] = TypesAfter(f[n - 1], program[n])
        BY <1>2, <2>1, <2>3
      <4> QED
        BY <1>4, <3>1, <4>1
    <3>2. CASE k # n
      <4>1. k \in 0..(n - 1) /\ (k # 0 => k - 1 \in 0..(n - 1))
        BY <1>2, <3>2
      <4> HIDE DEF g
      <4> QED
        BY <2>3, <2>4, <4>1
    <3> QED
      BY <3>1, <3>2
  <2>6. g = [k \in 0..n |-> g[k]]
    OBVIOUS
  <2> HIDE DEF g
  <2>7. [k \in 0..n |-> g[k]]
           = [k \in 0..n |-> IF k = 0 THEN << >> ELSE TypesAfter(g[k - 1], program[k])]
    BY <2>5
  <2>8. IsTyping(g, n)
    BY <2>6, <2>7 DEF IsTyping
  <2> QED
    BY <1>2, <2>8
<1> QED
  BY <1>3, <1>4

LEMMA StaticTypesAre ==
    ASSUME Len(program) \in Nat
    PROVE  /\ StaticTypes[0] = << >>
           /\ \A k \in 1..Len(program) :
                 StaticTypes[k] = TypesAfter(StaticTypes[k - 1], program[k])
<1>1. PICK f : IsTyping(f, Len(program))
  BY TypingExists
<1>2. StaticTypes = CHOOSE g : IsTyping(g, Len(program))
  BY DEF StaticTypes, IsTyping
<1>3. IsTyping(StaticTypes, Len(program))
  BY <1>1, <1>2
<1>4. PICK g : g = StaticTypes
  OBVIOUS
<1>5. g = [k \in 0..Len(program) |-> IF k = 0 THEN << >> ELSE TypesAfter(g[k - 1], program[k])]
  BY <1>3, <1>4 DEF IsTyping
<1>6. \A k \in 0..Len(program) : g[k] = IF k = 0 THEN << >> ELSE TypesAfter(g[k - 1], program[k])
  BY <1>5
<1> QED
  BY <1>4, <1>6
-----------------------------------------------------------------------------
LEMMA PopsTyped ==
    ASSUME NEW func \in Opcodes
    PROVE  Pops(func) \in Seq(ValueTypes) /\ Len(Pops(func)) \in Nat \ {0}
<1>1. /\ <<"integer", "integer">> \in Seq(ValueTypes) /\ <<"double", "double">> \in Seq(ValueTypes)
      /\ <<"boolean", "boolean">> \in Seq(ValueTypes) /\ <<"string", "string">> \in Seq(ValueTypes)
      /\ <<"double">> \in Seq(ValueTypes) /\ <<"integer">> \in Seq(ValueTypes)
      /\ <<"boolean">> \in Seq(ValueTypes)
  BY DEF ValueTypes
<1>2. \/ func \in IntBinary \cup IntDivision \cup IntRelations
      \/ func \in DoubleBinary \cup DoubleRelations
      \/ func \in BoolBinary
      \/ func = "ADD_STRING_STRING"
      \/ func \in DoubleUnary \cup Roundings \cup {"TO_STRING_DOUBLE"}
      \/ func \in {"NEGATE_INT", "ABS_INT", "CAST_INT_DOUBLE", "TO_STRING_INT"}
      \/ func \in {"NOT_BOOL", "TO_STRING_BOOL"}
  BY DEF Opcodes, ToStrings
<1>3. Pops(func) \in {<<"integer", "integer">>, <<"double", "double">>, <<"boolean", "boolean">>,
                      <<"string", "string">>, <<"double">>, <<"integer">>, <<"boolean">>}
  BY <1>2 DEF Pops, IntBinary, IntDivision, IntRelations, DoubleBinary, DoubleRelations, BoolBinary,
              DoubleUnary, Roundings
<1>4. Pops(func) \in Seq(ValueTypes)
  BY <1>1, <1>3
<1>5. Len(Pops(func)) # 0
  BY <1>3
<1> QED
  BY <1>4, <1>5

(* What a call pushes is of the type found statically.                     *)
LEMMA PushedTyped ==
    ASSUME NEW func \in Opcodes, NEW a, NEW v \in Pushed(func, a)
    PROVE  v.type = Pushes(func) /\ Pushes(func) \in ValueTypes
<1>1. CASE func \in IntBinary \cup IntDivision
  BY <1>1 DEF Pushed, Pushes, Value, ValueTypes, IntBinary, IntDivision
<1>2. CASE func = "NEGATE_INT"
  BY <1>2 DEF Pushed, Pushes, Value, ValueTypes, IntBinary, IntDivision
<1>3. CASE func = "ABS_INT"
  BY <1>3 DEF Pushed, Pushes, Value, ValueTypes, IntBinary, IntDivision
<1>4. CASE func \in Roundings
  BY <1>4 DEF Pushed, Pushes, Value, ValueTypes, IntBinary, IntDivision, Roundings
<1>5. CASE func = "CAST_INT_DOUBLE"
  BY <1>5 DEF Pushed, Pushes, Value, ValueTypes, IntBinary, IntDivision, Roundings
<1>6. CASE func \in DoubleBinary \cup DoubleUnary
  BY <1>6 DEF Pushed, Pushes, Value, ValueTypes, IntBinary, IntDivision, Roundings, DoubleBinary,
              DoubleUnary
<1>7. CASE func \in IntRelations
  BY <1>7 DEF Pushed, Pushes, Value, ValueTypes, IntBinary, IntDivision, Roundings, DoubleBinary,
              DoubleUnary, IntRelations
<1>8. CASE func \in DoubleRelations
  BY <1>8 DEF Pushed, Pushes, Value, ValueTypes, IntBinary, IntDivision, Roundings, DoubleBinary,
              DoubleUnary, IntRelations, DoubleRelations
<1>9. CASE func \in BoolBinary
  BY <1>9 DEF Pushed, Pushes, Value, ValueTypes, IntBinary, IntDivision, Roundings, DoubleBinary,
              DoubleUnary, IntRelations, DoubleRelations, BoolBinary
<1>10. CASE func = "NOT_BOOL"
  BY <1>10 DEF Pushed, Pushes, Value, ValueTypes, IntBinary, IntDivision, Roundings, DoubleBinary,
              DoubleUnary, IntRelations, DoubleRelations, BoolBinary
<1>11. CASE func \in ToStrings \cup {"ADD_STRING_STRING"}
  BY <1>11 DEF Pushed, Pushes, Value, ValueTypes, IntBinary, IntDivision, Roundings, DoubleBinary,
              DoubleUnary, IntRelations, DoubleRelations, BoolBinary, ToStrings
<1> QED
  BY <1>1, <1>2, <1>3, <1>4, <1>5, <1>6, <1>7, <1>8, <1>9, <1>10, <1>11 DEF Opcodes
-----------------------------------------------------------------------------
LEMMA StackSeq ==
    ASSUME StackInv, status = "running"
    PROVE  /\ Len(stack) \in Nat /\ DOMAIN stack = 1..Len(stack) /\ Len(program) \in Nat
           /\ TypesOf \in Seq(ValueTypes) /\ Len(TypesOf) = Len(stack)
           /\ \A k \in 1..Len(stack) : TypesOf[k] = stack[k].type
<1>1. PICK S : stack \in Seq(S)
  BY DEF StackInv, IsSeq
<1>2. Len(stack) \in Nat /\ DOMAIN stack = 1..Len(stack) /\ Len(program) \in Nat
  <2>1. program \in Seq(Operations)
    BY DEF StackInv
  <2> QED
    BY <1>1, <2>1
<1>3. TypesOf = [k \in 1..Len(stack) |-> stack[k].type]
  BY <1>2 DEF TypesOf
<1>4. \A k \in 1..Len(stack) : stack[k].type \in ValueTypes
  BY <1>2 DEF StackInv
<1> QED
  BY <1>2, <1>3, <1>4

(* A typed sequence is not the mark of an ill typed program.               *)
LEMMA TypedIsNotIll == ASSUME NEW t \in Seq(ValueTypes) PROVE t # IllTyped
<1>1. "illTyped" \notin ValueTypes
  BY DEF ValueTypes
<1>2. <<"illTyped">>[1] = "illTyped" /\ Len(<<"illTyped">>) = 1
  OBVIOUS
<1> QED
  BY <1>1, <1>2 DEF IllTyped

LEMMA FaultIsNoValue == \A s \in Faults : s \notin {"idle", "running", "value"}
BY Zenon DEF Faults

LEMMA SameProgram ==
    ASSUME UNCHANGED <<program, infos>>
    PROVE  StaticTypes' = StaticTypes
<1>1. \A types, operation : TypesAfter(types, operation)' = TypesAfter(types, operation)
  BY DEF TypesAfter
<1> QED
  BY DEF StaticTypes, TypesAfter

LEMMA LoadStep == ASSUME ExecutionInv, Load PROVE ExecutionInv'
<1>1. PICK id : id = program[ip].id
  OBVIOUS
<1>2. /\ program[ip].op = "LOAD" /\ ip <= Len(program) /\ status = "running"
      /\ UNCHANGED <<program, infos, memory>>
      /\ program \in Seq(Operations) /\ ip \in 1..(Len(program) + 1)
  BY DEF Load, AtOp, Running, ExecutionInv, StackInv
<1>3. Len(program) \in Nat /\ ip \in 1..Len(program) /\ StaticTypes' = StaticTypes
  BY <1>2, StackSeq, SameProgram DEF ExecutionInv
<1>4. StaticTypes[ip] = TypesAfter(StaticTypes[ip - 1], program[ip])
  BY <1>3, StaticTypesAre
<1>5. /\ StaticTypes[ip - 1] = TypesOf /\ TypesOf \in Seq(ValueTypes) /\ TypesOf # IllTyped
      /\ Len(TypesOf) = Len(stack)
  BY <1>2, StackSeq, TypedIsNotIll DEF ExecutionInv, TypesAreStatic, TypesOf
<1>6. StaticTypes[ip] = IF id \in DOMAIN infos THEN Append(TypesOf, infos[id].type) ELSE IllTyped
  BY <1>1, <1>2, <1>4, <1>5 DEF TypesAfter
<1>7. CASE id \notin DOMAIN infos
  <2>1. UNCHANGED <<stack, ip>> /\ status' \in Faults
    BY <1>1, <1>7, Zenon DEF Load, Faults
  <2>2. StackInv'
    BY <1>2, <2>1, FaultIsNoValue DEF ExecutionInv, StackInv, IsSeq
  <2>3. TypesAreStatic'
    BY <1>2, <1>3, <1>6, <1>7, <2>1, FaultIsNoValue DEF TypesAreStatic
  <2> QED
    BY <2>2, <2>3 DEF ExecutionInv
<1>8. CASE id \in DOMAIN infos
  <2>1. infos[id].type \in ValueTypes /\ memory[id].type = infos[id].type
    BY <1>8 DEF ExecutionInv, StackInv
  <2>2. stack' = Append(stack, memory[id]) /\ ip' = ip + 1 /\ status' = status
    BY <1>1, <1>8, <2>1 DEF Load
  <2>3. PICK S : stack \in Seq(S)
    BY <1>2 DEF ExecutionInv, StackInv, IsSeq
  <2>4. PICK v : v = memory[id]
    OBVIOUS
  <2>5. stack' \in Seq(S \cup {v}) /\ Len(stack') = Len(stack) + 1 /\ stack'[Len(stack) + 1] = v
        /\ \A k \in 1..Len(stack) : stack'[k] = stack[k]
    <3>1. stack \in Seq(S \cup {v})
      BY <2>3
    <3> QED
      BY <2>2, <2>4, <3>1, AppendProperties
  <2>6. Len(stack) \in Nat /\ DOMAIN stack = 1..Len(stack) /\ DOMAIN stack' = 1..(Len(stack) + 1)
        /\ \A k \in 1..Len(stack) : TypesOf[k] = stack[k].type
    BY <1>2, <2>5, StackSeq DEF ExecutionInv
  <2>7. StackInv'
    <3>1. IsSeq(stack')
      BY <2>5 DEF IsSeq
    <3>2. \A k \in DOMAIN stack' : stack'[k].type \in ValueTypes
      BY <1>2, <2>1, <2>4, <2>5, <2>6 DEF ExecutionInv, StackInv
    <3> QED
      BY <1>2, <1>3, <2>2, <3>1, <3>2 DEF ExecutionInv, StackInv, IsSeq
  <2>8. TypesOf' = Append(TypesOf, infos[id].type)
    <3>1. /\ Append(TypesOf, infos[id].type) \in Seq(ValueTypes)
          /\ Len(Append(TypesOf, infos[id].type)) = Len(stack) + 1
          /\ \A k \in 1..Len(stack) : Append(TypesOf, infos[id].type)[k] = TypesOf[k]
          /\ Append(TypesOf, infos[id].type)[Len(stack) + 1] = infos[id].type
      BY <1>5, <2>1, AppendProperties
    <3>2. TypesOf' = [k \in 1..(Len(stack) + 1) |-> stack'[k].type]
      BY <2>6 DEF TypesOf
    <3>3. TypesOf' \in Seq(ValueTypes) /\ Len(TypesOf') = Len(stack) + 1
          /\ \A k \in 1..(Len(stack) + 1) : TypesOf'[k] = stack'[k].type
      <4>1. \A k \in 1..(Len(stack) + 1) : stack'[k].type \in ValueTypes
        BY <1>2, <2>2, <2>6, <2>7 DEF StackInv
      <4> QED
        BY <2>6, <3>2, <4>1
    <3>4. \A k \in 1..(Len(stack) + 1) : TypesOf'[k] = Append(TypesOf, infos[id].type)[k]
      BY <2>1, <2>4, <2>5, <2>6, <3>1, <3>3
    <3> QED
      BY <3>1, <3>3, <3>4, SeqEqual
  <2>9. TypesAreStatic'
    <3>1. ip' - 1 = ip
      BY <1>3, <2>2
    <3>2. TypesOf' = StaticTypes'[ip' - 1]
      BY <1>3, <1>6, <1>8, <2>8, <3>1
    <3> QED
      BY <1>2, <2>2, <3>2, FaultIsNoValue DEF TypesAreStatic, TypesOf
  <2> QED
    BY <2>7, <2>9 DEF ExecutionInv
<1> QED
  BY <1>7, <1>8

(* Popping the operands, and what their types are.                         *)
LEMMA Popped ==
    ASSUME ExecutionInv, AtOp("CALL"), Supported
    PROVE  LET func == program[ip].func
               rest == Len(stack) - Len(Pops(func))
           IN  /\ func \in Opcodes /\ ip \in 1..Len(program) /\ Len(stack) \in Nat
               /\ Position(0) = rest
               /\ Wrong = {} <=> rest >= 0 /\ SubSeq(TypesOf, rest + 1, Len(TypesOf)) = Pops(func)
               /\ StaticTypes[ip] = IF Wrong = {} THEN Append(SubSeq(TypesOf, 1, rest), Pushes(func))
                                    ELSE IllTyped
<1>1. PICK func : func = program[ip].func
  OBVIOUS
<1>2. /\ program[ip].op = "CALL" /\ ip <= Len(program) /\ status = "running" /\ func \in Opcodes
      /\ StackInv /\ TypesAreStatic /\ ip \in 1..(Len(program) + 1)
  BY <1>1 DEF AtOp, Running, Supported, ExecutionInv, StackInv
<1>3. /\ Len(stack) \in Nat /\ DOMAIN stack = 1..Len(stack) /\ Len(program) \in Nat
      /\ TypesOf \in Seq(ValueTypes) /\ Len(TypesOf) = Len(stack)
      /\ \A k \in 1..Len(stack) : TypesOf[k] = stack[k].type
      /\ ip \in 1..Len(program)
  BY <1>2, StackSeq
<1>4. PICK pops : pops = Pops(func)
  OBVIOUS
<1>5. pops \in Seq(ValueTypes) /\ Len(pops) \in Nat \ {0} /\ DOMAIN pops = 1..Len(pops)
  BY <1>2, <1>4, PopsTyped
<1>6. PICK rest : rest = Len(stack) - Len(pops)
  OBVIOUS
<1>7. rest \in Int /\ rest <= Len(stack) /\ \A k \in 1..Len(pops) : Position(k) = rest + k
  BY <1>1, <1>3, <1>4, <1>5, <1>6 DEF Position
<1>8. Wrong = {k \in 1..Len(pops) : rest + k < 1 \/ stack[rest + k].type # pops[k]}
  BY <1>1, <1>4, <1>5, <1>7 DEF Wrong
<1>9. ASSUME rest >= 0
      PROVE  SubSeq(TypesOf, rest + 1, Len(TypesOf)) = pops <=>
                \A k \in 1..Len(pops) : stack[rest + k].type = pops[k]
  <2>1. \A k \in (rest + 1)..Len(TypesOf) : TypesOf[k] \in ValueTypes
    BY <1>3, <1>7, <1>9
  <2>2. PICK top : top = SubSeq(TypesOf, rest + 1, Len(TypesOf))
    OBVIOUS
  <2>3. /\ top \in Seq(ValueTypes)
        /\ Len(top) = IF rest + 1 <= Len(TypesOf) THEN Len(TypesOf) - (rest + 1) + 1 ELSE 0
        /\ \A k \in 1..(Len(TypesOf) - (rest + 1) + 1) : top[k] = TypesOf[rest + 1 + k - 1]
    <3>1. rest + 1 \in Int /\ Len(TypesOf) \in Int
      BY <1>3, <1>7
    <3> QED
      BY <2>1, <2>2, <3>1, SubSeqProperties
  <2>4. Len(top) = Len(pops) /\ \A k \in 1..Len(pops) : top[k] = stack[rest + k].type
    <3>1. Len(TypesOf) - (rest + 1) + 1 = Len(pops) /\ rest + 1 <= Len(TypesOf)
      BY <1>3, <1>5, <1>6
    <3>2. \A k \in 1..Len(pops) : rest + 1 + k - 1 = rest + k /\ rest + k \in 1..Len(stack)
      BY <1>3, <1>5, <1>6, <1>9
    <3> QED
      BY <1>3, <2>3, <3>1, <3>2
  <2> QED
    BY <1>5, <2>2, <2>3, <2>4, SeqEqual
<1>10. Wrong = {} => rest >= 0
  <2>1. 1 \in 1..Len(pops)
    BY <1>5
  <2> QED
    BY <1>7, <1>8, <2>1
<1>11. Wrong = {} <=> rest >= 0 /\ SubSeq(TypesOf, rest + 1, Len(TypesOf)) = pops
  <2>1. ASSUME rest >= 0 PROVE Wrong = {} <=> \A k \in 1..Len(pops) : stack[rest + k].type = pops[k]
    BY <1>7, <1>8, <2>1
  <2> QED
    BY <1>9, <1>10, <2>1
<1>12. StaticTypes[ip] = TypesAfter(TypesOf, program[ip])
  <2>1. StaticTypes[ip - 1] = TypesOf
    BY <1>2 DEF TypesAreStatic, TypesOf
  <2> QED
    BY <1>3, <2>1, StaticTypesAre
<1>13. Position(0) = rest
  BY <1>1, <1>3, <1>4, <1>5, <1>6 DEF Position
<1>14. TypesAfter(TypesOf, program[ip]) =
          IF rest >= 0 /\ SubSeq(TypesOf, rest + 1, Len(TypesOf)) = pops
          THEN Append(SubSeq(TypesOf, 1, rest), Pushes(func)) ELSE IllTyped
  BY <1>1, <1>2, <1>3, <1>4, <1>6 DEF TypesAfter
<1>15. StaticTypes[ip] = IF Wrong = {} THEN Append(SubSeq(TypesOf, 1, rest), Pushes(func))
                         ELSE IllTyped
  BY <1>11, <1>12, <1>14
<1> QED
  BY <1>1, <1>2, <1>3, <1>4, <1>6, <1>11, <1>13, <1>15

LEMMA CallStep == ASSUME ExecutionInv, Call PROVE ExecutionInv'
<1>1. PICK func : func = program[ip].func
  OBVIOUS
<1>2. PICK rest : rest = Len(stack) - Len(Pops(func))
  OBVIOUS
<1>3. PICK v \in Pushed(func, Args) : stack' = Append(SubSeq(stack, 1, Position(0)), v)
  BY <1>1 DEF Call
<1>4. /\ AtOp("CALL") /\ Supported /\ Wrong = {} /\ status = "running"
      /\ ip' = ip + 1 /\ UNCHANGED <<program, infos, memory, status>>
  BY DEF Call, AtOp, Running
<1>5. /\ func \in Opcodes /\ ip \in 1..Len(program) /\ Len(stack) \in Nat
      /\ Position(0) = rest /\ rest >= 0
      /\ StaticTypes[ip] = Append(SubSeq(TypesOf, 1, rest), Pushes(func))
  BY <1>1, <1>2, <1>4, Popped
<1>6. /\ rest \in Nat /\ rest <= Len(stack) /\ v.type = Pushes(func) /\ Pushes(func) \in ValueTypes
  <2>1. Len(Pops(func)) \in Nat
    BY <1>5, PopsTyped
  <2> QED
    BY <1>2, <1>3, <1>5, <2>1, PushedTyped
<1>7. /\ DOMAIN stack = 1..Len(stack) /\ Len(program) \in Nat
      /\ TypesOf \in Seq(ValueTypes) /\ Len(TypesOf) = Len(stack)
      /\ \A k \in 1..Len(stack) : TypesOf[k] = stack[k].type
  BY <1>4, StackSeq DEF ExecutionInv
<1>8. PICK S : stack \in Seq(S)
  BY <1>4 DEF ExecutionInv, StackInv, IsSeq
<1>9. PICK below : below = SubSeq(stack, 1, rest)
  OBVIOUS
<1>10. /\ below \in Seq(S) /\ Len(below) = rest /\ \A k \in 1..rest : below[k] = stack[k]
  <2>1. \A k \in 1..rest : stack[k] \in S
    BY <1>5, <1>6, <1>8
  <2>2. /\ SubSeq(stack, 1, rest) \in Seq(S)
        /\ Len(SubSeq(stack, 1, rest)) = IF 1 <= rest THEN rest - 1 + 1 ELSE 0
        /\ \A k \in 1..(rest - 1 + 1) : SubSeq(stack, 1, rest)[k] = stack[1 + k - 1]
    BY <1>6, <2>1, SubSeqProperties
  <2> QED
    BY <1>6, <1>9, <2>2
<1>11. /\ stack' \in Seq(S \cup {v}) /\ Len(stack') = rest + 1 /\ stack'[rest + 1] = v
       /\ \A k \in 1..rest : stack'[k] = stack[k]
  <2>1. below \in Seq(S \cup {v})
    BY <1>10
  <2>2. stack' = Append(below, v)
    BY <1>3, <1>5, <1>9
  <2> QED
    BY <1>10, <2>1, <2>2, AppendProperties
<1>12. DOMAIN stack' = 1..(rest + 1)
  BY <1>11
<1>13. \A k \in 1..(rest + 1) : stack'[k].type \in ValueTypes
  <2>1. \A k \in 1..rest : stack[k].type \in ValueTypes
    BY <1>4, <1>6, <1>7 DEF ExecutionInv, StackInv
  <2> QED
    BY <1>6, <1>11, <2>1
<1>14. StackInv'
  <2>1. IsSeq(stack')
    BY <1>11 DEF IsSeq
  <2> QED
    BY <1>4, <1>5, <1>7, <1>12, <1>13, <2>1 DEF ExecutionInv, StackInv, IsSeq
<1>15. TypesOf' = Append(SubSeq(TypesOf, 1, rest), Pushes(func))
  <2>1. \A k \in 1..rest : TypesOf[k] \in ValueTypes
    BY <1>6, <1>7
  <2>2. PICK t : t = SubSeq(TypesOf, 1, rest)
    OBVIOUS
  <2>3. t \in Seq(ValueTypes) /\ Len(t) = rest /\ \A k \in 1..rest : t[k] = TypesOf[k]
    <3>1. /\ SubSeq(TypesOf, 1, rest) \in Seq(ValueTypes)
          /\ Len(SubSeq(TypesOf, 1, rest)) = IF 1 <= rest THEN rest - 1 + 1 ELSE 0
          /\ \A k \in 1..(rest - 1 + 1) : SubSeq(TypesOf, 1, rest)[k] = TypesOf[1 + k - 1]
      BY <1>6, <2>1, SubSeqProperties
    <3> QED
      BY <1>6, <2>2, <3>1
  <2>4. /\ Append(t, Pushes(func)) \in Seq(ValueTypes) /\ Len(Append(t, Pushes(func))) = rest + 1
        /\ \A k \in 1..rest : Append(t, Pushes(func))[k] = t[k]
        /\ Append(t, Pushes(func))[rest + 1] = Pushes(func)
    BY <1>6, <2>3, AppendProperties
  <2>5. TypesOf' = [k \in 1..(rest + 1) |-> stack'[k].type]
    BY <1>12 DEF TypesOf
  <2>6. TypesOf' \in Seq(ValueTypes) /\ Len(TypesOf') = rest + 1
        /\ \A k \in 1..(rest + 1) : TypesOf'[k] = stack'[k].type
    BY <1>6, <1>13, <2>5
  <2>7. \A k \in 1..(rest + 1) : TypesOf'[k] = Append(t, Pushes(func))[k]
    <3>1. \A k \in 1..rest : TypesOf'[k] = TypesOf[k]
      BY <1>6, <1>7, <1>11, <2>6
    <3> QED
      BY <1>6, <1>11, <2>3, <2>4, <2>6, <3>1
  <2> QED
    BY <2>2, <2>4, <2>6, <2>7, SeqEqual
<1>16. TypesAreStatic'
  <2>1. StaticTypes' = StaticTypes /\ ip' - 1 = ip
    BY <1>4, <1>5, SameProgram
  <2>2. TypesOf' = StaticTypes'[ip' - 1]
    BY <1>5, <1>15, <2>1
  <2> QED
    BY <1>4, <2>2, FaultIsNoValue DEF TypesAreStatic, TypesOf
<1> QED
  BY <1>14, <1>16 DEF ExecutionInv

(* Steps that stop the execution at the operation that cannot be executed. *)
LEMMA StopStep ==
    ASSUME ExecutionInv, UNCHANGED <<program, infos, memory, ip>>,
           status' \notin {"idle", "running", "value"},
           status' \in Faults => ip <= Len(program) /\ StaticTypes[ip] = IllTyped
    PROVE  ExecutionInv'
<1>1. StackInv'
  BY DEF ExecutionInv, StackInv
<1>2. StaticTypes' = StaticTypes
  BY SameProgram
<1>3. ip \in 1..(Len(program) + 1) /\ Len(program) \in Nat
  <2>1. program \in Seq(Operations)
    BY DEF ExecutionInv, StackInv
  <2> QED
    BY <2>1 DEF ExecutionInv, StackInv
<1>4. TypesAreStatic'
  BY <1>2, <1>3 DEF TypesAreStatic
<1> QED
  BY <1>1, <1>4 DEF ExecutionInv

LEMMA UnsupportedStep == ASSUME ExecutionInv, CallUnsupported PROVE ExecutionInv'
<1>1. status' \in Faults
  BY Zenon DEF CallUnsupported, Faults
<1>2. /\ program[ip].op = "CALL" /\ program[ip].func \notin Opcodes /\ status = "running"
      /\ ip <= Len(program) /\ UNCHANGED <<program, infos, memory, ip>>
      /\ ip \in 1..(Len(program) + 1) /\ program \in Seq(Operations)
  BY DEF CallUnsupported, AtOp, Supported, Running, ExecutionInv, StackInv
<1>3. ip \in 1..Len(program) /\ Len(program) \in Nat
  BY <1>2
<1>4. StaticTypes[ip] = IllTyped
  BY <1>2, <1>3, StaticTypesAre DEF TypesAfter
<1> QED
  BY <1>1, <1>2, <1>4, FaultIsNoValue, StopStep

LEMMA FaultsStep == ASSUME ExecutionInv, CallFaults PROVE ExecutionInv'
<1>1. status' \in Faults
  BY Zenon DEF CallFaults, Faults
<1>2. /\ AtOp("CALL") /\ Supported /\ Wrong # {} /\ ip <= Len(program)
      /\ UNCHANGED <<program, infos, memory, ip>>
  BY DEF CallFaults, AtOp
<1>3. StaticTypes[ip] = IllTyped
  BY <1>2, Popped
<1> QED
  BY <1>1, <1>2, <1>3, FaultIsNoValue, StopStep

LEMMA DividesStep == ASSUME ExecutionInv, CallDividesByZero \/ CallTraps PROVE ExecutionInv'
<1>1. status' \notin {"idle", "running", "value"} /\ status' \notin Faults
  BY Zenon DEF CallDividesByZero, CallTraps, Faults
<1>2. UNCHANGED <<program, infos, memory, ip>>
  BY DEF CallDividesByZero, CallTraps
<1> QED
  BY <1>1, <1>2, StopStep

LEMMA StartStep == ASSUME ExecutionInv, Start PROVE ExecutionInv'
<1>1. /\ stack' = << >> /\ ip' = 1 /\ status' = "running" /\ UNCHANGED <<program, infos, memory>>
      /\ program \in Seq(Operations)
  BY DEF Start, ExecutionInv, StackInv
<1>2. Len(program) \in Nat /\ StaticTypes' = StaticTypes /\ StaticTypes[0] = << >>
  BY <1>1, StaticTypesAre, SameProgram
<1>3. StackInv'
  <2>1. IsSeq(<< >>)
    BY DEF IsSeq
  <2> QED
    BY <1>1, <1>2, <2>1 DEF ExecutionInv, StackInv
<1>4. TypesOf' = << >>
  BY <1>1 DEF TypesOf
<1>5. TypesAreStatic'
  <2>1. ip' - 1 = 0
    BY <1>1
  <2> QED
    BY <1>1, <1>2, <1>4, <2>1, FaultIsNoValue DEF TypesAreStatic, TypesOf
<1> QED
  BY <1>3, <1>5 DEF ExecutionInv

LEMMA ReturnStep == ASSUME ExecutionInv, Return PROVE ExecutionInv'
<1>1. /\ status = "running" /\ ip > Len(program) /\ UNCHANGED <<program, infos, memory, stack, ip>>
      /\ stack # << >> => status' = "value"
      /\ ip \in 1..(Len(program) + 1) /\ program \in Seq(Operations)
  BY DEF Return, Running, ExecutionInv, StackInv
<1>2. stack = << >> => status' \in Faults
  BY Zenon DEF Return, Faults
<1>3. Len(program) \in Nat /\ ip = Len(program) + 1 /\ StaticTypes' = StaticTypes
  <2>1. Len(program) \in Nat
    BY <1>1
  <2> QED
    BY <1>1, <2>1, SameProgram
<1>4. TypesOf' = TypesOf /\ TypesOf = StaticTypes[ip - 1]
  BY <1>1 DEF TypesOf, ExecutionInv, TypesAreStatic
<1>5. StackInv'
  BY <1>1, <1>2, <1>3, FaultIsNoValue DEF ExecutionInv, StackInv
<1>6. CASE stack = << >>
  <2>1. TypesOf = << >>
    BY <1>6 DEF TypesOf
  <2>2. TypesAreStatic'
    BY <1>1, <1>2, <1>3, <1>4, <1>6, <2>1, FaultIsNoValue DEF TypesAreStatic
  <2> QED
    BY <1>5, <2>2 DEF ExecutionInv
<1>7. CASE stack # << >>
  <2>1. TypesAreStatic'
    BY <1>1, <1>3, <1>4, <1>7, FaultIsNoValue DEF TypesAreStatic, TypesOf
  <2> QED
    BY <1>5, <2>1 DEF ExecutionInv
<1> QED
  BY <1>6, <1>7
-----------------------------------------------------------------------------
LEMMA ExecutionInit == Init => ExecutionInv
<1> SUFFICES ASSUME Init PROVE ExecutionInv
  OBVIOUS
<1>1. /\ program \in Seq(Operations) /\ ip = 1 /\ status = "idle"
  BY ExecutionAssumption DEF Init, Operations
<1>2. PICK s \in Storages : infos = s.infos /\ memory = s.memory
  BY DEF Init
<1>3. /\ DOMAIN memory = DOMAIN infos
      /\ \A id \in DOMAIN infos : infos[id].type \in ValueTypes /\ memory[id].type = infos[id].type
  BY <1>2, ExecutionAssumption DEF IsStorage, IsValue
<1>4. StackInv
  <2>1. Len(program) \in Nat
    BY <1>1
  <2> QED
    BY <1>1, <1>3, <2>1 DEF StackInv
<1>5. TypesAreStatic
  BY <1>1, FaultIsNoValue DEF TypesAreStatic
<1> QED
  BY <1>4, <1>5 DEF ExecutionInv

LEMMA ExecutionNext == ASSUME ExecutionInv, [Next]_vars PROVE ExecutionInv'
<1>1. CASE UNCHANGED vars
  <2>1. StaticTypes' = StaticTypes
    BY <1>1, SameProgram DEF vars
  <2>2. TypesAreStatic'
    BY <1>1, <2>1 DEF vars, ExecutionInv, TypesAreStatic
  <2>3. StackInv'
    BY <1>1 DEF vars, ExecutionInv, StackInv
  <2> QED
    BY <2>2, <2>3 DEF ExecutionInv
<1> QED
  BY <1>1, StartStep, LoadStep, UnsupportedStep, FaultsStep, DividesStep, CallStep, ReturnStep
     DEF Next, Step, Stopped

(* Whatever the program and the values are, the types on the stack are     *)
(* those found without executing it, and an ill typed program is stopped   *)
(* at the first operation that its types do not fit                        *)
(* (postfix_interpreter.h:18-24, postfix_interpreter.cpp:5-292).           *)
THEOREM TypesNeedNoValues == Spec => []TypesAreStatic
<1>1. ExecutionInv /\ [Next]_vars => ExecutionInv'
  BY ExecutionNext
<1>2. ExecutionInv => TypesAreStatic
  BY DEF ExecutionInv
<1> QED
  BY ExecutionInit, <1>1, <1>2, PTL DEF Spec
=============================================================================
