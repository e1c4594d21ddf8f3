----------------------------- MODULE PostfixCompiler -----------------------------
(***************************************************************************)
(* Compilation of one infix expression into a program for the postfix      *)
(* interpreter: PostfixCompiler::compileExpression and the class           *)
(* CompilationContext (src/expression_compiler/postfix_compiler.cpp).      *)
(*                                                                         *)
(* The code is sequential.  "pc" names the function, or the loop, that     *)
(* makes the next step; one step is one iteration of that loop.  Three     *)
(* loops compile operators (addBinaryOp, compileToTok, compilePrefixOps)   *)
(* and share the loop that inserts the casts of a call.                    *)
(*                                                                         *)
(* Abstracted: the positions and the texts of error messages, the values   *)
(* of literals (an entry of the variable storage keeps the literal's text),*)
(* and the iterators of the operation list (each operation carries a       *)
(* "node" of its own, and an iterator is the node it points to).           *)
(***************************************************************************)
EXTENDS FunctionStorage, SequencesExt

CONSTANTS Inputs,       \* the token sequences the compiler is called with
          Functions,    \* the function storage of the execution context
          Variables,    \* its variable storage when the call is made
          OutOfRange    \* the texts of the literals stoll and stod reject

ValueTokens == {"ID", "INT", "FLOAT", "STRING", "TRUE", "FALSE"}

TokenTypes == ValueTokens \cup
    {"PROGRAM", "CONST", "VAR", "BEGIN", "END", "DOT", "COMMA", "SEMICOLON",
     "COLON", "READ", "WRITE", "WRITELN", "LPAREN", "RPAREN", "IF", "THEN",
     "ELSE", "WHILE", "DO", "ASSIGN", "PLUS", "MINUS", "MULT", "DIV", "DIVINT",
     "MOD", "EQUAL", "LESS", "GREATER", "LESSEQUAL", "GREATEREQUAL",
     "NOTEQUAL", "AND", "OR", "NOT", "NONE", "INVALID", "ENDOFFILE"}

(* Literals are registered under names that no identifier can have: "$0",  *)
(* "$1" and so on.  They are all called "$" here.                          *)
LiteralName == "$"

(* The two strings the compilers make up themselves are named for the      *)
(* provers, which do not know that they are in STRING.                     *)
Lexemes == STRING \cup {LiteralName, ""}

Tokens == [type : TokenTypes, value : Lexemes]

(* Entries of the variable storage; an identifier is an index into it.     *)
VariableInfo == [name : Lexemes, type : DataTypes, isConstant : BOOLEAN, value : Lexemes]

ASSUME InputsAssumption ==
    /\ Inputs \subseteq Seq(Tokens)
    /\ \A input \in Inputs : input # << >> /\ Last(input).type = "ENDOFFILE"

ASSUME ContextAssumption ==
    /\ {"integer", "double", "boolean", "string"} \subseteq DataTypes
    /\ IsFunctionStorage(Functions)
    /\ Variables \in Seq(VariableInfo)

-----------------------------------------------------------------------------
(* Tables of the compiler *)

UnaryOperators == [MINUS |-> "$operator-", NOT |-> "$operatornot"]

BinaryOperators ==
    [OR           |-> [func |-> "$operatoror",  precedence |-> 100],
     AND          |-> [func |-> "$operatorand", precedence |-> 101],
     EQUAL        |-> [func |-> "$operator=",   precedence |-> 102],
     NOTEQUAL     |-> [func |-> "$operator<>",  precedence |-> 102],
     LESS         |-> [func |-> "$operator<",   precedence |-> 103],
     LESSEQUAL    |-> [func |-> "$operator<=",  precedence |-> 103],
     GREATER      |-> [func |-> "$operator>",   precedence |-> 103],
     GREATEREQUAL |-> [func |-> "$operator>=",  precedence |-> 103],
     PLUS         |-> [func |-> "$operator+",   precedence |-> 104],
     MINUS        |-> [func |-> "$operator-",   precedence |-> 104],
     MULT         |-> [func |-> "$operator*",   precedence |-> 105],
     DIV          |-> [func |-> "$operator/",   precedence |-> 105],
     DIVINT       |-> [func |-> "$operatordiv", precedence |-> 105],
     MOD          |-> [func |-> "$operatormod", precedence |-> 105]]

(* No operator of the table is right associative. *)
RightToLeft == {}

MemberTypes == {"NONE", "END", "VALUE", "FUNCCALL", "LPAREN", "RPAREN",
                "COMMA", "BINARYOP", "UNARYOP"}

Members == [type : MemberTypes, index : Nat]

OperandStart == {"VALUE", "FUNCCALL", "LPAREN", "UNARYOP"}
AfterOperand == {"END", "RPAREN", "COMMA", "BINARYOP"}

(* Mutant: an empty argument list is let through. *)
ValidWithEmptyParentheses ==
         ({"NONE", "LPAREN", "COMMA", "BINARYOP"} \X OperandStart)
    \cup ({"VALUE"} \X AfterOperand)
    \cup ({"RPAREN"} \X (AfterOperand \cup {"VALUE"}))
    \cup ({"UNARYOP"} \X {"VALUE", "FUNCCALL", "LPAREN"})
    \cup {<<"FUNCCALL", "LPAREN">>, <<"LPAREN", "RPAREN">>}

(* What may follow what.  A value may follow a closing parenthesis. *)
ValidMemberSequences ==
         ({"NONE", "LPAREN", "COMMA", "BINARYOP"} \X OperandStart)
    \cup ({"VALUE"} \X AfterOperand)
    \cup ({"RPAREN"} \X (AfterOperand \cup {"VALUE"}))
    \cup ({"UNARYOP"} \X {"VALUE", "FUNCCALL", "LPAREN"})
    \cup {<<"FUNCCALL", "LPAREN">>}

ValidateSeq(before, after) == <<before, after>> \in ValidMemberSequences

PrefixOps == {"UNARYOP", "FUNCCALL"}
-----------------------------------------------------------------------------
VARIABLES tokens,       \* mTokens
          members,      \* mMembers
          memberIndex,  \* mMemberIndex, from 1
          cur,          \* mCur; mPrev is the value it had before
          stack,        \* mStack: members that wait for their operands
          blocks,       \* mBlocks: the open parentheses and their commas
          types,        \* mTypes: type and last operation of each operand
          opList,       \* mOpList
          infos,        \* the variable storage, which literals are added to
          argCount,     \* the argument of compilePrefixOps
          call,         \* the call compileFuncCallWithCasts works on
          pc

vars == <<tokens, members, memberIndex, cur, stack, blocks, types, opList,
          infos, argCount, call, pc>>

Failures == {"runtime error", "logic error"}    \* exceptions that escape
Outcomes == Failures \cup {"ok", "syntax error"}

Loops == {"addBinaryOp", "compileToTok", "compilePrefixOps"}

NoCall == [caller |-> "none"]

Blocks == [start : {"NONE", "LPAREN"}, commas : Nat]
Operands == [type : DataTypes, node : Nat]
Calls == [caller : Loops, func : FunctionInfo, args : Seq(Operands), next : Nat]

(* An operation: "id" is the variable of a LOAD, "func" the function of a  *)
(* CALL; "node" is its place in memory, which iterators point to.          *)
Ops == [op : {"LOAD"}, id : Nat, node : Nat]
           \cup [op : {"CALL"}, func : FunctionIds, node : Nat]

TypeOK ==
    /\ tokens \in Seq(Tokens)
    /\ members \in Seq(Members)
    /\ memberIndex \in Nat
    /\ cur \in Members
    /\ stack \in Seq(Members)
    /\ blocks \in Seq(Blocks)
    /\ types \in Seq(Operands)
    /\ opList \in Seq(Ops)
    /\ infos \in Seq(VariableInfo)
    /\ argCount \in Nat
    /\ call \in Calls \cup {NoCall}
    /\ pc \in {"preprocess", "nextTok", "dispatch", "casts"} \cup Loops \cup Outcomes

(* The constructor fills mMembers, then compileExpression opens the block  *)
(* of the whole expression.                                                *)
Init ==
    /\ tokens \in Inputs
    /\ members = << >>
    /\ memberIndex = 1
    /\ cur = [type |-> "NONE", index |-> 0]
    /\ stack = << >>
    /\ blocks = <<[start |-> "NONE", commas |-> 0]>>
    /\ types = << >>
    /\ opList = << >>
    /\ infos = Variables
    /\ argCount = 0
    /\ call = NoCall
    /\ pc = "preprocess"
-----------------------------------------------------------------------------
(* The kind of member a token becomes; MINUS is a unary operator where one *)
(* may stand and a binary operator elsewhere.  Empty: not a member.        *)

IsFunction(token) ==
    token.type = "ID" /\ IsFunctionName(Functions, token.value)

IsUnaryOperator(token, prev) ==
    token.type \in DOMAIN UnaryOperators /\ ValidateSeq(prev, "UNARYOP")

IsValue(token) ==
    /\ token.type \in ValueTokens
    /\ ~(token.type = "ID" /\ token.value \in DataTypes)

MemberTypeOf(token, prev) ==
    CASE token.type = "ENDOFFILE" -> {"END"}
      [] token.type \in {"LPAREN", "RPAREN", "COMMA"} -> {token.type}
      [] IsFunction(token) -> {"FUNCCALL"}
      [] IsUnaryOperator(token, prev) -> {"UNARYOP"}
      [] token.type \in DOMAIN BinaryOperators /\ ~IsUnaryOperator(token, prev)
            -> {"BINARYOP"}
      [] IsValue(token) /\ ~IsFunction(token) -> {"VALUE"}
      [] OTHER -> {}

PrevMemberType == IF members = << >> THEN "NONE" ELSE Last(members).type

Preprocess ==
    /\ pc = "preprocess"
    /\ Len(members) < Len(tokens)
    /\ \E type \in MemberTypeOf(tokens[Len(members) + 1], PrevMemberType) :
          members' = Append(members, [type |-> type, index |-> Len(members) + 1])
    /\ UNCHANGED <<tokens, memberIndex, cur, stack, blocks, types, opList,
                   infos, argCount, call, pc>>

(* Mutant: a token that is no member is looked at again and again. *)
PreprocessStays ==
    /\ pc = "preprocess"
    /\ Len(members) < Len(tokens)
    /\ MemberTypeOf(tokens[Len(members) + 1], PrevMemberType) = {}
    /\ UNCHANGED vars

PreprocessRejects ==
    /\ pc = "preprocess"
    /\ Len(members) < Len(tokens)
    /\ MemberTypeOf(tokens[Len(members) + 1], PrevMemberType) = {}
    /\ pc' = "syntax error"
    /\ UNCHANGED <<tokens, members, memberIndex, cur, stack, blocks, types,
                   opList, infos, argCount, call>>

PreprocessEnds ==
    /\ pc = "preprocess"
    /\ Len(members) = Len(tokens)
    /\ pc' = "nextTok"
    /\ UNCHANGED <<tokens, members, memberIndex, cur, stack, blocks, types,
                   opList, infos, argCount, call>>

NextTok ==
    /\ pc = "nextTok"
    /\ cur' = members[memberIndex]
    /\ memberIndex' = memberIndex + 1
    /\ pc' = IF ValidateSeq(cur.type, cur'.type) THEN "dispatch" ELSE "syntax error"
    /\ UNCHANGED <<tokens, members, stack, blocks, types, opList, infos,
                   argCount, call>>
-----------------------------------------------------------------------------
(* One action per kind of member: the branches of compileExpression.       *)

OpenNewBlock ==
    /\ pc = "dispatch"
    /\ cur.type = "LPAREN"
    /\ blocks' = Append(blocks, [start |-> "LPAREN", commas |-> 0])
    /\ stack' = Append(stack, cur)
    /\ pc' = "nextTok"
    /\ UNCHANGED <<tokens, members, memberIndex, cur, types, opList, infos,
                   argCount, call>>

(* Functions and unary operators both wait on the stack. *)
AddUnaryOp ==
    /\ pc = "dispatch"
    /\ cur.type \in PrefixOps
    /\ stack' = Append(stack, cur)
    /\ pc' = "nextTok"
    /\ UNCHANGED <<tokens, members, memberIndex, cur, blocks, types, opList,
                   infos, argCount, call>>

AddBinaryOp ==
    /\ pc = "dispatch"
    /\ cur.type = "BINARYOP"
    /\ pc' = "addBinaryOp"
    /\ UNCHANGED <<tokens, members, memberIndex, cur, stack, blocks, types,
                   opList, infos, argCount, call>>

(* Mutant: the type of fractional literals is not a registered name. *)
LiteralTypeMisnamed == [INT |-> "integer", FLOAT |-> "float", STRING |-> "string",
                        TRUE |-> "boolean", FALSE |-> "boolean"]

(* The operand of a value token: a declared variable, or an entry that the *)
(* literal adds to the variable storage.                                   *)
LiteralType == [INT |-> "integer", FLOAT |-> "double", STRING |-> "string",
                TRUE |-> "boolean", FALSE |-> "boolean"]

VariableIds(name) == {i \in DOMAIN infos : infos[i].name = name}

Load(id, storage) ==
    /\ infos' = storage
    /\ opList' = Append(opList, [op |-> "LOAD", id |-> id, node |-> Len(opList) + 1])
    /\ types' = Append(types, [type |-> storage[id].type, node |-> Len(opList) + 1])
    /\ argCount' = 1
    /\ pc' = "compilePrefixOps"
    /\ UNCHANGED <<tokens, members, memberIndex, cur, stack, blocks, call>>

AddVariable ==
    /\ pc = "dispatch"
    /\ cur.type = "VALUE"
    /\ tokens[cur.index].type = "ID"
    /\ \E id \in VariableIds(tokens[cur.index].value) : Load(id, infos)

AddLiteral ==
    /\ pc = "dispatch"
    /\ cur.type = "VALUE"
    /\ tokens[cur.index].type \in DOMAIN LiteralType
    /\ tokens[cur.index].value \notin OutOfRange
    /\ Load(Len(infos) + 1,
            Append(infos, [name |-> LiteralName,
                           type |-> LiteralType[tokens[cur.index].type],
                           isConstant |-> TRUE,
                           value |-> tokens[cur.index].value]))

AddValueRejects ==
    /\ pc = "dispatch"
    /\ cur.type = "VALUE"
    /\ \/ /\ tokens[cur.index].type = "ID"
          /\ VariableIds(tokens[cur.index].value) = {}
       \/ /\ tokens[cur.index].type \in {"INT", "FLOAT"}
          /\ tokens[cur.index].value \in OutOfRange
    /\ pc' = "syntax error"
    /\ UNCHANGED <<tokens, members, memberIndex, cur, stack, blocks, types,
                   opList, infos, argCount, call>>

ApplyComma ==
    /\ pc = "dispatch"
    /\ cur.type = "COMMA"
    /\ pc' = IF blocks = << >> THEN "logic error" ELSE "compileToTok"
    /\ UNCHANGED <<tokens, members, memberIndex, cur, stack, blocks, types,
                   opList, infos, argCount, call>>

CloseParenthesis ==
    /\ pc = "dispatch"
    /\ cur.type = "RPAREN"
    /\ IF blocks = << >>
       THEN pc' = "logic error" /\ UNCHANGED <<blocks, argCount>>
       ELSE IF Last(blocks).start # "LPAREN"
       THEN pc' = "syntax error" /\ UNCHANGED <<blocks, argCount>>
       ELSE /\ argCount' = Last(blocks).commas + 1
            /\ blocks' = Front(blocks)
            /\ pc' = "compileToTok"
    /\ UNCHANGED <<tokens, members, memberIndex, cur, stack, types, opList,
                   infos, call>>

CloseExpression ==
    /\ pc = "dispatch"
    /\ cur.type = "END"
    /\ IF Len(blocks) # 1 \/ Last(blocks).start # "NONE"
       THEN pc' = "syntax error" /\ UNCHANGED blocks
       ELSE blocks' = Front(blocks) /\ pc' = "compileToTok"
    /\ UNCHANGED <<tokens, members, memberIndex, cur, stack, types, opList,
                   infos, argCount, call>>
-----------------------------------------------------------------------------
(* compileFuncCallWithCasts, called by each of the three loops with the    *)
(* last n operands.  When no overload fits the operands are pushed back    *)
(* and a syntax error is thrown.                                           *)

ArgTypes(args) == [i \in DOMAIN args |-> args[i].type]

BeginCall(name, n) ==
    /\ IF Len(types) < n
       THEN pc' = "runtime error" /\ UNCHANGED <<types, call>>
       ELSE LET rest == Len(types) - n
                args == SubSeq(types, rest + 1, Len(types))
                found == FindFunction(Functions, name, ArgTypes(args))
            IN  \/ \E func \in found :
                      /\ types' = SubSeq(types, 1, rest)
                      /\ call' = [caller |-> pc, func |-> func, args |-> args, next |-> 1]
                      /\ pc' = "casts"
                \/ /\ found = {}
                   /\ pc' = "syntax error"
                   /\ UNCHANGED <<types, call>>
    /\ UNCHANGED <<tokens, members, memberIndex, cur, stack, blocks, opList,
                   infos, argCount>>

BeginBinary(member) ==
    BeginCall(BinaryOperators[tokens[member.index].type].func, 2)

NewNode == Len(opList) + 1

(* Mutant: every cast goes behind all operations so far. *)
InsertCastAtEnd ==
    /\ pc = "casts"
    /\ call.next \in CastPositions(call.func, ArgTypes(call.args))
    /\ opList' = Append(opList,
                    [op |-> "CALL",
                     func |-> CastTo(Functions, call.args[call.next].type,
                                     call.func.args[call.next]),
                     node |-> NewNode])
    /\ call' = [call EXCEPT !.next = @ + 1]
    /\ UNCHANGED <<tokens, members, memberIndex, cur, stack, blocks, types,
                   infos, argCount, pc>>

(* The cast of an argument goes right behind the argument's last operation.*)
InsertCast ==
    /\ pc = "casts"
    /\ call.next \in CastPositions(call.func, ArgTypes(call.args))
    /\ \E at \in {at \in DOMAIN opList : opList[at].node = call.args[call.next].node} :
          opList' = InsertAt(opList, at + 1,
                        [op |-> "CALL",
                         func |-> CastTo(Functions, call.args[call.next].type,
                                         call.func.args[call.next]),
                         node |-> NewNode])
    /\ call' = [call EXCEPT !.next = @ + 1]
    /\ UNCHANGED <<tokens, members, memberIndex, cur, stack, blocks, types,
                   infos, argCount, pc>>

SkipCast ==
    /\ pc = "casts"
    /\ call.next \in DOMAIN call.args \ CastPositions(call.func, ArgTypes(call.args))
    /\ call' = [call EXCEPT !.next = @ + 1]
    /\ UNCHANGED <<tokens, members, memberIndex, cur, stack, blocks, types,
                   opList, infos, argCount, pc>>

(* The call itself; back in the loop, which pops the operator.  In         *)
(* compilePrefixOps the result is the one argument of the operator below.  *)
EndCall ==
    /\ pc = "casts"
    /\ call.next > Len(call.args)
    /\ opList' = Append(opList, [op |-> "CALL", func |-> call.func.id, node |-> NewNode])
    /\ types' = Append(types, [type |-> call.func.ret, node |-> NewNode])
    /\ stack' = Front(stack)
    /\ argCount' = IF call.caller = "compilePrefixOps" THEN 1 ELSE argCount
    /\ call' = NoCall
    /\ pc' = call.caller
    /\ UNCHANGED <<tokens, members, memberIndex, cur, blocks, infos>>
-----------------------------------------------------------------------------
(* The loop of addBinaryOp. *)

Precedence(member) == BinaryOperators[tokens[member.index].type].precedence

TopIsOneOf(memberTypes) == stack # << >> /\ Last(stack).type \in memberTypes

(* Mutant: operators of the same priority are grouped from the right. *)
TopBindsFirstIfStronger ==
    /\ TopIsOneOf({"BINARYOP"})
    /\ Precedence(cur) < Precedence(Last(stack))

TopBindsFirst ==
    /\ TopIsOneOf({"BINARYOP"})
    /\ IF tokens[cur.index].type \in RightToLeft
       THEN Precedence(cur) < Precedence(Last(stack))
       ELSE Precedence(cur) <= Precedence(Last(stack))

CompileStrongerOp ==
    /\ pc = "addBinaryOp"
    /\ TopBindsFirst
    /\ BeginBinary(Last(stack))

PushBinaryOp ==
    /\ pc = "addBinaryOp"
    /\ ~TopBindsFirst
    /\ stack' = Append(stack, cur)
    /\ pc' = "nextTok"
    /\ UNCHANGED <<tokens, members, memberIndex, cur, blocks, types, opList,
                   infos, argCount, call>>
-----------------------------------------------------------------------------
(* compileToTok: the operators above the last opening parenthesis, or, at  *)
(* the end of the expression, all of them.  What follows is the rest of    *)
(* the function that called it: applyComma or closeBlock.                  *)

StopTypes == IF cur.type = "END" THEN {} ELSE {"LPAREN"}

CompileToTok ==
    /\ pc = "compileToTok"
    /\ stack # << >> /\ ~TopIsOneOf(StopTypes)
    /\ IF TopIsOneOf({"BINARYOP"})
       THEN BeginBinary(Last(stack))
       ELSE /\ pc' = "runtime error"
            /\ UNCHANGED <<tokens, members, memberIndex, cur, stack, blocks,
                           types, opList, infos, argCount, call>>

AtStop == pc = "compileToTok" /\ (stack = << >> \/ TopIsOneOf(StopTypes))

CountComma ==
    /\ AtStop
    /\ cur.type = "COMMA"
    /\ blocks' = [blocks EXCEPT ![Len(blocks)].commas = @ + 1]
    /\ pc' = "nextTok"
    /\ UNCHANGED <<tokens, members, memberIndex, cur, stack, types, opList,
                   infos, argCount, call>>

(* Mutant: the parenthesis stays on the stack (popFound = false). *)
PopParenthesisLeavesIt ==
    /\ AtStop
    /\ cur.type = "RPAREN"
    /\ pc' = "compilePrefixOps"
    /\ UNCHANGED <<tokens, members, memberIndex, cur, stack, blocks, types,
                   opList, infos, argCount, call>>

PopParenthesis ==
    /\ AtStop
    /\ cur.type = "RPAREN"
    /\ stack' = IF stack = << >> THEN stack ELSE Front(stack)
    /\ pc' = "compilePrefixOps"
    /\ UNCHANGED <<tokens, members, memberIndex, cur, blocks, types, opList,
                   infos, argCount, call>>

(* The result type is that of the top operand. *)
Finish ==
    /\ AtStop
    /\ cur.type = "END"
    /\ pc' = IF types = << >> THEN "logic error" ELSE "ok"
    /\ UNCHANGED <<tokens, members, memberIndex, cur, stack, blocks, types,
                   opList, infos, argCount, call>>
-----------------------------------------------------------------------------
(* compilePrefixOps: the functions and unary operators that wait for the   *)
(* operand, or the argument list, that has just been completed.            *)

CompileFunction ==
    /\ pc = "compilePrefixOps"
    /\ TopIsOneOf({"FUNCCALL"})
    /\ BeginCall(tokens[Last(stack).index].value, argCount)

CompileUnaryOp ==
    /\ pc = "compilePrefixOps"
    /\ TopIsOneOf({"UNARYOP"})
    /\ argCount = 1
    /\ BeginCall(UnaryOperators[tokens[Last(stack).index].type], 1)

TooManyArguments ==
    /\ pc = "compilePrefixOps"
    /\ ~TopIsOneOf({"FUNCCALL"})
    /\ argCount # 1
    /\ pc' = "syntax error"
    /\ UNCHANGED <<tokens, members, memberIndex, cur, stack, blocks, types,
                   opList, infos, argCount, call>>

PrefixOpsDone ==
    /\ pc = "compilePrefixOps"
    /\ ~TopIsOneOf(PrefixOps)
    /\ argCount = 1
    /\ pc' = "nextTok"
    /\ UNCHANGED <<tokens, members, memberIndex, cur, stack, blocks, types,
                   opList, infos, argCount, call>>
-----------------------------------------------------------------------------
Terminated == pc \in Outcomes /\ UNCHANGED vars

Step ==
    \/ Preprocess \/ PreprocessRejects \/ PreprocessEnds
    \/ NextTok
    \/ OpenNewBlock \/ AddUnaryOp \/ AddBinaryOp
    \/ AddVariable \/ AddLiteral \/ AddValueRejects
    \/ ApplyComma \/ CloseParenthesis \/ CloseExpression
    \/ InsertCast \/ SkipCast \/ EndCall
    \/ CompileStrongerOp \/ PushBinaryOp
    \/ CompileToTok \/ CountComma \/ PopParenthesis \/ Finish
    \/ CompileFunction \/ CompileUnaryOp \/ TooManyArguments \/ PrefixOpsDone

Next == Step \/ Terminated

Spec == Init /\ [][Next]_vars

(* The compiler runs on a thread of its own until it returns or throws.    *)
FairSpec == Spec /\ WF_vars(Step)
-----------------------------------------------------------------------------
(* No expression, however malformed, makes the compiler throw anything but *)
(* a SyntaxError: the checks of mTypes, mStack and mBlocks that guard its  *)
(* runtime_error throws, and the empty-stack checks of Stack::top, never   *)
(* fail, and nextTok never reads past the members (lines 331-334, 354-357, *)
(* 381-382, 421-433 and 478; stack.h:151).                                 *)
NoInternalError ==
    /\ pc \notin Failures
    /\ pc = "nextTok" => memberIndex \in DOMAIN members

(* compileExpression returns: its loops end for every expression.          *)
Terminates == <>(pc \in Outcomes)
=============================================================================
