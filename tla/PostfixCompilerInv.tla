---------------------------- MODULE PostfixCompilerInv ----------------------------
(***************************************************************************)
(* The inductive invariant from which PostfixCompilerProofs derives that   *)
(* the compiler never fails internally: how the stack of waiting           *)
(* operators, the open blocks and the operands keep step.                  *)
(***************************************************************************)
EXTENDS PostfixCompiler

(* The loop that runs, also while it waits for a call to be compiled. *)
Phase == IF pc = "casts" THEN call.caller ELSE pc

Running == pc \notin Outcomes

(* The members read so far and the current one. *)
MembersInv ==
    /\ tokens # << >> /\ Last(tokens).type = "ENDOFFILE"
    /\ Len(members) <= Len(tokens)
    /\ \A k \in DOMAIN members :
          /\ members[k].type = "END" <=> tokens[k].type = "ENDOFFILE"
          /\ members[k].type # "NONE"
          /\ members[k].index = k
    /\ memberIndex \in 1..(Len(members) + 1)
    /\ memberIndex = 1 => cur.type = "NONE"
    /\ memberIndex > 1 => cur = members[memberIndex - 1]
    /\ pc = "preprocess" => memberIndex = 1
    /\ pc \notin {"preprocess"} \cup Outcomes => Len(members) = Len(tokens)

(* Which member each part of the code works on. *)
PhaseInv ==
    /\ pc = "nextTok" => cur.type # "END"
    /\ Phase = "addBinaryOp" => cur.type = "BINARYOP"
    /\ Phase = "compileToTok" => cur.type \in {"COMMA", "RPAREN", "END"}
    /\ Phase = "compilePrefixOps" => cur.type \in {"VALUE", "RPAREN"}

(* A prefix operator on the stack stands right below a function name or an *)
(* opening parenthesis, unless it is the top and its operand comes next or *)
(* is being compiled.                                                      *)
TopIsPrefixOp == TopIsOneOf(PrefixOps)

StackInv ==
    /\ \A k \in DOMAIN stack : stack[k].type \in {"BINARYOP", "LPAREN"} \cup PrefixOps
    /\ \A k \in DOMAIN stack :
          k < Len(stack) /\ stack[k].type \in PrefixOps
            => stack[k + 1].type \in {"FUNCCALL", "LPAREN"}
    /\ pc = "preprocess" => stack = << >>
    /\ pc = "nextTok" /\ TopIsPrefixOp => cur.type \in PrefixOps
    /\ pc = "dispatch" /\ TopIsPrefixOp => cur.type \in {"VALUE", "FUNCCALL", "LPAREN"}
    /\ Phase \in {"addBinaryOp", "compileToTok"} => ~TopIsPrefixOp
    /\ pc = "casts" =>
          TopIsOneOf(IF call.caller = "compilePrefixOps" THEN PrefixOps ELSE {"BINARYOP"})

(* What a call under way has been given. *)
CallInv ==
    pc = "casts" =>
        /\ call \in Calls
        /\ Len(call.func.args) = Len(call.args)
        /\ Castable(Functions, call.func, ArgTypes(call.args))
        /\ Len(call.args) = IF call.caller = "compilePrefixOps" THEN argCount ELSE 2

(* The open parentheses: one block for each and one for the expression. *)
Positions(s, memberTypes) == {k \in DOMAIN s : s[k].type \in memberTypes}

Count(s, memberTypes) == Cardinality(Positions(s, memberTypes))

Closing(memberType) == Phase = "compileToTok" /\ cur.type = memberType

BlocksInv ==
    /\ \A k \in DOMAIN blocks : blocks[k].start = IF k = 1 THEN "NONE" ELSE "LPAREN"
    /\ Running =>
          IF Closing("END") THEN blocks = << >> /\ Count(stack, {"LPAREN"}) = 0
          ELSE /\ blocks # << >>
               /\ Count(stack, {"LPAREN"}) =
                    IF Closing("RPAREN") THEN Len(blocks) ELSE Len(blocks) - 1

(* Each binary operator on the stack and each comma of an open block has   *)
(* an operand in mTypes; n more are there for what is done next.           *)
CommaMarks(bs) == UNION {{k} \X (1..bs[k].commas) : k \in DOMAIN bs}

Commas(bs) == Cardinality(CommaMarks(bs))

Available(n) ==
    Len(types) + (IF pc = "casts" THEN Len(call.args) ELSE 0)
        >= Count(stack, {"BINARYOP"}) + Commas(blocks) + n

OperandsInv ==
    /\ Running => Available(0)
    /\ pc = "nextTok" /\ cur.type \in {"VALUE", "RPAREN"} => Available(1)
    /\ pc = "dispatch" /\ cur.type \in AfterOperand => Available(1)
    /\ Phase = "addBinaryOp" => Available(1)
    /\ Phase = "compileToTok" => Available(1)
    /\ Phase = "compilePrefixOps" \/ Closing("RPAREN") => argCount >= 1 /\ Available(argCount)

(* The inductive invariant: the state is well formed and no exception but  *)
(* a SyntaxError has been thrown.                                          *)
IInv ==
    /\ TypeOK
    /\ pc \notin Failures
    /\ MembersInv
    /\ PhaseInv
    /\ StackInv
    /\ CallInv
    /\ BlocksInv
    /\ OperandsInv
-----------------------------------------------------------------------------
(* An operation of the interpreter has one signature, by whatever name it  *)
(* is called, and what casts one type into another is such an operation.   *)
ASSUME SignatureAssumption ==
    /\ \A f, g \in Range(Functions.functions) : f.id = g.id => f.args = g.args /\ f.ret = g.ret
    /\ \A pair \in DOMAIN Functions.casts :
          \E f \in Range(Functions.functions) :
             f.id = Functions.casts[pair] /\ f.args = <<pair[1]>> /\ f.ret = pair[2]

(* The types on the interpreter's stack when it has executed the first k   *)
(* operations, found by executing them on types; "bad" when an operation   *)
(* does not get the argument types it pops.                                *)
FuncOf(id) == CHOOSE f \in Range(Functions.functions) : f.id = id

Execute(typeStack, op) ==
    IF op.op = "LOAD" THEN Append(typeStack, infos[op.id].type)
    ELSE LET func == FuncOf(op.func)
             rest == Len(typeStack) - Len(func.args)
         IN  IF rest >= 0 /\ SubSeq(typeStack, rest + 1, Len(typeStack)) = func.args
             THEN Append(SubSeq(typeStack, 1, rest), func.ret)
             ELSE <<"bad">>

TypesAfter[k \in 0..Len(opList)] ==
    IF k = 0 THEN << >> ELSE Execute(TypesAfter[k - 1], opList[k])

(* After each step of a loop the operands the compiler keeps in mTypes are *)
(* those the interpreter will have on its stack, in number and in type,    *)
(* when it gets there: std::get in popValue never meets another type, and  *)
(* a cast inserted into the middle of the list leaves the rest in order    *)
(* (postfix_compiler.cpp:218-250; postfix_interpreter.h:18-24).            *)
TypesMirrorCode ==
    pc # "casts" =>
        TypesAfter[Len(opList)] = [i \in DOMAIN types |-> types[i].type]
=============================================================================
