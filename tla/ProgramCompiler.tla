----------------------------- MODULE ProgramCompiler -----------------------------
(***************************************************************************)
(* Compilation of a whole program: ProgramCompiler::compileProgram, the    *)
(* functions it calls (src/expression_compiler/program_compiler.cpp) and   *)
(* the expression compiler they call in turn.                              *)
(*                                                                         *)
(* The parser descends recursively.  "control" is what is left to do: the  *)
(* rest of the function that runs, then that of its caller, and so on.  An *)
(* item to do carries the local variables it needs.                        *)
(*                                                                         *)
(* Abstracted: positions and texts of errors, and the values of constants, *)
(* whose entries keep the literal.                                         *)
(***************************************************************************)
EXTENDS PostfixCompiler, Integers

VARIABLES source,       \* mTokens
          position,     \* mCurrentPosition, from 1
          control,
          names,        \* names, or name, of the row of declarations
          typeName,     \* typeName of the row
          nodes,        \* the execution nodes made so far
          node,         \* the node the last call of a parse function returned
          root,         \* the root in the context
          outcome

programVars == <<source, position, control, names, typeName, nodes, node, root, outcome>>
allVars == <<vars, programVars>>

(* Execution nodes point to each other by their numbers; 0 is nullptr.  *)
Node(kind, child, id, programs) ==
    [kind |-> kind, next |-> 0, child |-> child, id |-> id, programs |-> programs]

Kinds == {"Block", "Read", "Write", "WriteLn", "Assign", "If", "While"}
Nodes == [kind : Kinds, next : Nat, child : Nat, id : Nat, programs : Seq(Seq(Ops))]

Do(label) == [do |-> label]
MatchToken(type) == [do |-> "match", type |-> type]
Make(made) == [do |-> "make", made |-> made]

(* compileProgram *)
WholeProgram ==
    <<MatchToken("PROGRAM"), MatchToken("ID"), MatchToken("SEMICOLON"),
      Do("declarations"), Do("block"), Do("root"), MatchToken("DOT")>>

ProgramInit ==
    /\ source \in Inputs
    /\ position = 1
    /\ control = WholeProgram
    /\ names = << >>
    /\ typeName = "none"
    /\ nodes = << >>
    /\ node = 0
    /\ root = 0
    /\ outcome = "compiling"
    /\ infos = Variables
    /\ tokens = << >> /\ members = << >> /\ memberIndex = 1
    /\ cur = [type |-> "NONE", index |-> 0]
    /\ stack = << >> /\ blocks = << >> /\ types = << >> /\ opList = << >>
    /\ argCount = 0
    /\ call = NoCall
    /\ pc = "idle"
-----------------------------------------------------------------------------
CurToken == source[position]
IsToken(type) == CurToken.type = type

Due == Head(control)
Doing(label) == outcome = "compiling" /\ control # << >> /\ Due.do = label

(* What is due is done, and "items" are what it calls for next. *)
Continue(items) == control' = items \o Tail(control)

Goto(items) ==
    /\ Continue(items)
    /\ UNCHANGED <<vars, source, position, names, typeName, nodes, node, root, outcome>>

IsFreeName(name) ==
    name \notin DataTypes /\ ~IsFunctionName(Functions, name) /\ VariableIds(name) = {}

(* A variable that is not a constant. *)
AssignableIds(name) == {id \in VariableIds(name) : ~infos[id].isConstant}

Match ==
    /\ Doing("match")
    /\ IsToken(Due.type)
    /\ position' = position + 1
    /\ Continue(<< >>)
    /\ UNCHANGED <<vars, source, names, typeName, nodes, node, root, outcome>>
-----------------------------------------------------------------------------
(* Declarations *)

Declarations ==
    /\ Doing("declarations")
    /\ Goto(CASE IsToken("CONST") -> <<MatchToken("CONST"), Do("constant"),
                                       Do("constants"), Do("declarations")>>
              [] IsToken("VAR") -> <<MatchToken("VAR"), Do("row"),
                                     Do("rows"), Do("declarations")>>
              [] OTHER -> << >>)

(* parseConstants and parseVariables: a first row, and more of them. *)
MoreConstants ==
    /\ Doing("constants")
    /\ Goto(IF IsToken("ID") THEN <<Do("constant"), Do("constants")>> ELSE << >>)

(* Mutant: the row that follows is looked at but not parsed. *)
MoreRowsForever ==
    /\ Doing("rows")
    /\ Goto(IF IsToken("ID") THEN <<Do("rows")>> ELSE << >>)

MoreRows ==
    /\ Doing("rows")
    /\ Goto(IF IsToken("ID") THEN <<Do("row"), Do("rows")>> ELSE << >>)

(* Mutant: a name that is taken is not noticed. *)
ConstantsRowTakesAnyName ==
    /\ Doing("constant")
    /\ IsToken("ID")
    /\ names' = <<CurToken.value>>
    /\ Continue(<<MatchToken("ID"), MatchToken("COLON"), Do("type"), MatchToken("EQUAL"),
                  Do("literal"), MatchToken("SEMICOLON")>>)
    /\ UNCHANGED <<vars, source, position, typeName, nodes, node, root, outcome>>

ConstantsRow ==
    /\ Doing("constant")
    /\ IsToken("ID") /\ IsFreeName(CurToken.value)
    /\ names' = <<CurToken.value>>
    /\ Continue(<<MatchToken("ID"), MatchToken("COLON"), Do("type"), MatchToken("EQUAL"),
                  Do("literal"), MatchToken("SEMICOLON")>>)
    /\ UNCHANGED <<vars, source, position, typeName, nodes, node, root, outcome>>

VariablesRow ==
    /\ Doing("row")
    /\ names' = << >>
    /\ Continue(<<Do("name"), Do("names"), MatchToken("COLON"), Do("type"),
                  MatchToken("SEMICOLON"), Do("register")>>)
    /\ UNCHANGED <<vars, source, position, typeName, nodes, node, root, outcome>>

Name ==
    /\ Doing("name")
    /\ IsToken("ID")
    /\ names' = Append(names, CurToken.value)
    /\ Continue(<<MatchToken("ID")>>)
    /\ UNCHANGED <<vars, source, position, typeName, nodes, node, root, outcome>>

MoreNames ==
    /\ Doing("names")
    /\ Goto(IF IsToken("COMMA") THEN <<MatchToken("COMMA"), Do("name"), Do("names")>> ELSE << >>)

TypeOfRow ==
    /\ Doing("type")
    /\ IsToken("ID") /\ CurToken.value \in DataTypes
    /\ typeName' = CurToken.value
    /\ Continue(<<MatchToken("ID")>>)
    /\ UNCHANGED <<vars, source, position, names, nodes, node, root, outcome>>

(* registerVariable: its check is one that the caller has made before.     *)
Register(info) ==
    /\ IF VariableIds(info.name) = {}
       THEN infos' = Append(infos, info) /\ UNCHANGED outcome
       ELSE outcome' = "runtime error" /\ UNCHANGED infos
    /\ UNCHANGED <<tokens, members, memberIndex, cur, stack, blocks, types, opList,
                   argCount, call, pc>>

IsLiteralOf(type) ==
    /\ CurToken.type \in DOMAIN LiteralType /\ LiteralType[CurToken.type] = type
    /\ IsToken("INT") \/ IsToken("FLOAT") => CurToken.value \notin OutOfRange

Constant ==
    /\ Doing("literal")
    /\ IsLiteralOf(typeName)
    /\ Register([name |-> names[1], type |-> typeName, isConstant |-> TRUE,
                 value |-> CurToken.value])
    /\ Continue(<<MatchToken(CurToken.type)>>)
    /\ UNCHANGED <<source, position, names, typeName, nodes, node, root>>

Variable ==
    /\ Doing("register")
    /\ names # << >> /\ IsFreeName(names[1])
    /\ typeName \in {"integer", "double", "boolean", "string"}
    /\ Register([name |-> names[1], type |-> typeName, isConstant |-> FALSE, value |-> ""])
    /\ names' = Tail(names)
    /\ UNCHANGED <<source, position, control, typeName, nodes, node, root>>

RowRegistered ==
    /\ Doing("register")
    /\ names = << >>
    /\ Goto(<< >>)
-----------------------------------------------------------------------------
(* Expressions *)

(* The number of opening tokens between position and p that are not closed.*)
Opened(opening, closing, p) ==
    LET seen(type) == Cardinality({k \in position..(p - 1) : source[k].type = type})
    IN  seen(opening) - seen(closing)

(* Mutant: the search also goes on behind the end of the file. *)
ClosesPastTheEnd(p) ==
    /\ Opened("LPAREN", "RPAREN", p) = 0 /\ Opened("BEGIN", "END", p) = 0
    /\ source[p].type \in {"COMMA", "SEMICOLON", "END", "RPAREN"}

(* Mutant: parentheses are not counted. *)
ClosesAtAnyParenthesis(p) ==
    \/ source[p].type \in {"ENDOFFILE", "INVALID"}
    \/ /\ Opened("BEGIN", "END", p) = 0
       /\ source[p].type \in {"COMMA", "SEMICOLON", "END", "RPAREN"}

ClosesExpression(p) ==
    \/ source[p].type \in {"ENDOFFILE", "INVALID"}
    \/ /\ Opened("LPAREN", "RPAREN", p) = 0 /\ Opened("BEGIN", "END", p) = 0
       /\ source[p].type \in {"COMMA", "SEMICOLON", "END", "RPAREN"}

FindClosingTokenPosition ==
    Min({p \in position..Len(source) : ClosesExpression(p)} \cup {Len(source) + 1})

(* compileExpression: the tokens up to the closing one, and an end of file *)
(* of their own, go to the expression compiler, which starts anew.         *)
BeginExpression ==
    /\ Doing("expression") /\ pc = "idle"
    /\ tokens' = Append(SubSeq(source, position, FindClosingTokenPosition - 1),
                        [type |-> "ENDOFFILE", value |-> ""])
    /\ members' = << >> /\ memberIndex' = 1
    /\ cur' = [type |-> "NONE", index |-> 0]
    /\ stack' = << >> /\ types' = << >> /\ opList' = << >>
    /\ blocks' = <<[start |-> "NONE", commas |-> 0]>>
    /\ argCount' = 0
    /\ call' = NoCall
    /\ pc' = "preprocess"
    /\ UNCHANGED <<infos, programVars>>

CompileExpression == Doing("expression") /\ Step /\ UNCHANGED programVars

(* The result stays in opList and types. *)
EndExpression ==
    /\ Doing("expression") /\ pc = "ok"
    /\ position' = FindClosingTokenPosition
    /\ pc' = "idle"
    /\ Continue(<< >>)
    /\ UNCHANGED <<tokens, members, memberIndex, cur, stack, blocks, types, opList, infos,
                   argCount, call, source, names, typeName, nodes, node, root, outcome>>

(* A syntax error is thrown on; other exceptions pass through. *)
ExpressionThrows ==
    /\ Doing("expression") /\ pc \in Outcomes \ {"ok"}
    /\ outcome' = pc
    /\ UNCHANGED <<vars, source, position, control, names, typeName, nodes, node, root>>

ResultType == Last(types).type
-----------------------------------------------------------------------------
(* Statements *)

Statements(start, prev) == [do |-> "statements", start |-> start, prev |-> prev]

CodeBlock ==
    /\ Doing("block")
    /\ Goto(<<MatchToken("BEGIN"), Statements(0, 0)>>)

(* The loop of parseCodeBlock, and what follows a statement in it. *)
MoreStatements ==
    /\ Doing("statements")
    /\ Goto(IF IsToken("END")
            THEN <<MatchToken("END"), Make(Node("Block", Due.start, 0, << >>))>>
            ELSE <<Do("statement"), [Due EXCEPT !.do = "link"]>>)

(* Mutant: the last statement is linked with the first. *)
LinkToStart ==
    /\ Doing("link")
    /\ IF Due.start = 0
       THEN Continue(<<Statements(node, node)>>) /\ UNCHANGED nodes
       ELSE /\ nodes' = [nodes EXCEPT ![Due.prev].next = Due.start]
            /\ Continue(<<Statements(Due.start, node)>>)
    /\ UNCHANGED <<vars, source, position, names, typeName, node, root, outcome>>

Link ==
    /\ Doing("link")
    /\ IF Due.start = 0
       THEN Continue(<<Statements(node, node)>>) /\ UNCHANGED nodes
       ELSE /\ nodes' = [nodes EXCEPT ![Due.prev].next = node]
            /\ Continue(<<Statements(Due.start, node)>>)
    /\ UNCHANGED <<vars, source, position, names, typeName, node, root, outcome>>

MakeNode ==
    /\ Doing("make")
    /\ nodes' = Append(nodes, Due.made)
    /\ node' = Len(nodes) + 1
    /\ Continue(<< >>)
    /\ UNCHANGED <<vars, source, position, names, typeName, root, outcome>>

SetRoot ==
    /\ Doing("root")
    /\ root' = node
    /\ Continue(<< >>)
    /\ UNCHANGED <<vars, source, position, names, typeName, nodes, node, outcome>>

(* The branches of parseStatement. *)
NestedBlock ==
    /\ Doing("statement") /\ IsToken("BEGIN")
    /\ Goto(<<Do("block")>>)

ReadStatement ==
    /\ Doing("statement") /\ IsToken("READ")
    /\ Goto(<<MatchToken("READ"), MatchToken("LPAREN"), Do("read")>>)

ReadVariable ==
    /\ Doing("read") /\ IsToken("ID")
    /\ \E id \in AssignableIds(CurToken.value) :
          Goto(<<MatchToken("ID"), MatchToken("RPAREN"), MatchToken("SEMICOLON"),
                 Make(Node("Read", 0, id, << >>))>>)

WriteStatement ==
    /\ Doing("statement")
    /\ IsToken("WRITE") \/ IsToken("WRITELN")
    /\ LET kind == IF IsToken("WRITE") THEN "Write" ELSE "WriteLn"
       IN  Goto(<<MatchToken(CurToken.type), MatchToken("LPAREN"), Do("firstArgument"),
                  Do("expression"), [do |-> "arguments", kind |-> kind, programs |-> << >>]>>)

FirstArgument ==
    /\ Doing("firstArgument") /\ ~IsToken("RPAREN")
    /\ Goto(<< >>)

MoreArguments ==
    /\ Doing("arguments")
    /\ LET programs == Append(Due.programs, opList)
       IN  Goto(IF IsToken("COMMA")
                THEN <<MatchToken("COMMA"), Do("expression"),
                       [Due EXCEPT !.programs = programs]>>
                ELSE <<MatchToken("RPAREN"), MatchToken("SEMICOLON"),
                       Make(Node(Due.kind, 0, 0, programs))>>)

AssignStatement ==
    /\ Doing("statement") /\ IsToken("ID")
    /\ \E id \in AssignableIds(CurToken.value) :
          Goto(<<MatchToken("ID"), MatchToken("ASSIGN"), Do("expression"),
                 [do |-> "assign", id |-> id]>>)

(* Mutant: the type of the expression is not compared. *)
AssignAnything ==
    /\ Doing("assign")
    /\ Goto(<<MatchToken("SEMICOLON"), Make(Node("Assign", 0, Due.id, <<opList>>))>>)

Assign ==
    /\ Doing("assign") /\ ResultType = infos[Due.id].type
    /\ Goto(<<MatchToken("SEMICOLON"), Make(Node("Assign", 0, Due.id, <<opList>>))>>)

IfStatement ==
    /\ Doing("statement") /\ IsToken("IF")
    /\ Goto(<<MatchToken("IF"), MatchToken("LPAREN"), Do("expression"), Do("if")>>)

If ==
    /\ Doing("if") /\ ResultType = "boolean"
    /\ Goto(<<MatchToken("RPAREN"), MatchToken("THEN"), Do("statement"),
              [do |-> "clause", program |-> opList]>>)

MakeIf(clause) == Make(Node("If", clause, 0, <<Due.program>>))

(* The else clause becomes the next sibling of the if clause. *)
IfClause ==
    /\ Doing("clause")
    /\ Goto(IF IsToken("ELSE")
            THEN <<MatchToken("ELSE"), Do("statement"),
                   [do |-> "else", program |-> Due.program, clause |-> node]>>
            ELSE <<MakeIf(node)>>)

ElseClause ==
    /\ Doing("else")
    /\ nodes' = [nodes EXCEPT ![Due.clause].next = node]
    /\ Continue(<<MakeIf(Due.clause)>>)
    /\ UNCHANGED <<vars, source, position, names, typeName, node, root, outcome>>

WhileStatement ==
    /\ Doing("statement") /\ IsToken("WHILE")
    /\ Goto(<<MatchToken("WHILE"), MatchToken("LPAREN"), Do("expression"), Do("while")>>)

While ==
    /\ Doing("while") /\ ResultType = "boolean"
    /\ Goto(<<MatchToken("RPAREN"), MatchToken("DO"), Do("statement"),
              [do |-> "body", program |-> opList]>>)

LoopBody ==
    /\ Doing("body")
    /\ Goto(<<Make(Node("While", node, 0, <<Due.program>>))>>)
-----------------------------------------------------------------------------
(* The conditions under which a SyntaxError is thrown. *)
Erroneous ==
    \/ Doing("match") /\ ~IsToken(Due.type)
    \/ Doing("constant") /\ ~(IsToken("ID") /\ IsFreeName(CurToken.value))
    \/ Doing("name") /\ ~IsToken("ID")
    \/ Doing("type") /\ ~(IsToken("ID") /\ CurToken.value \in DataTypes)
    \/ Doing("literal") /\ ~IsLiteralOf(typeName)
    \/ /\ Doing("register") /\ names # << >>
       /\ \/ ~IsFreeName(names[1])
          \/ typeName \notin {"integer", "double", "boolean", "string"}
    \/ Doing("read") /\ ~(IsToken("ID") /\ AssignableIds(CurToken.value) # {})
    \/ Doing("firstArgument") /\ IsToken("RPAREN")
    \/ Doing("assign") /\ ResultType # infos[Due.id].type
    \/ (Doing("if") \/ Doing("while")) /\ ResultType # "boolean"
    \/ /\ Doing("statement")
       /\ IF IsToken("ID") THEN AssignableIds(CurToken.value) = {}
          ELSE CurToken.type \notin {"BEGIN", "READ", "WRITE", "WRITELN", "IF", "WHILE"}

ThrowSyntaxError ==
    /\ Erroneous
    /\ outcome' = "syntax error"
    /\ UNCHANGED <<vars, source, position, control, names, typeName, nodes, node, root>>

Return ==
    /\ outcome = "compiling" /\ control = << >>
    /\ outcome' = "ok"
    /\ UNCHANGED <<vars, source, position, control, names, typeName, nodes, node, root>>

ProgramTerminated == outcome # "compiling" /\ UNCHANGED allVars

ProgramStep ==
    \/ Match \/ ThrowSyntaxError \/ Return
    \/ Declarations \/ MoreConstants \/ MoreRows \/ ConstantsRow \/ VariablesRow
    \/ Name \/ MoreNames \/ TypeOfRow \/ Constant \/ Variable \/ RowRegistered
    \/ BeginExpression \/ CompileExpression \/ EndExpression \/ ExpressionThrows
    \/ CodeBlock \/ MoreStatements \/ Link \/ MakeNode \/ SetRoot \/ NestedBlock
    \/ ReadStatement \/ ReadVariable \/ WriteStatement \/ FirstArgument \/ MoreArguments
    \/ AssignStatement \/ Assign \/ IfStatement \/ If \/ IfClause \/ ElseClause
    \/ WhileStatement \/ While \/ LoopBody

ProgramNext == ProgramStep \/ ProgramTerminated

ProgramSpec == ProgramInit /\ [][ProgramNext]_allVars

(* The compiler runs on a thread of its own until it returns or throws. *)
FairProgramSpec == ProgramSpec /\ WF_allVars(ProgramStep)
-----------------------------------------------------------------------------
(* The parser never looks at a token behind the last one: nothing compares *)
(* mCurrentPosition with the size of mTokens, neither when a token is      *)
(* matched nor when the position is set behind an expression; it stays in  *)
(* bounds because no rule matches the end of the file (program_compiler.h: *)
(* 38-53, program_compiler.cpp:533, 543).                                  *)
PositionInBounds == outcome = "compiling" => position \in DOMAIN source

(* Nothing but a SyntaxError is ever thrown: registerVariable always gets  *)
(* a new name, and the expression compiler is never given tokens on which  *)
(* its internal checks fail (program_compiler.cpp:407-413, 465-512, 529).  *)
NoExceptionEscapes == outcome \notin Failures

(* The nodes that the nodes point to, by the field that points there.      *)
Pointers == {p \in (DOMAIN nodes) \X {"next", "child"} : nodes[p[1]][p[2]] # 0}
Target(p) == nodes[p[1]][p[2]]

(* The execution nodes form a tree while it grows: no node is below two    *)
(* others, which would then run its successors as their own, children are  *)
(* made before and siblings after a node, so that no chain of shared       *)
(* pointers is circular, and an if and a while, which execute their child  *)
(* without a test for null (execution_node.cpp:81, 122), have one          *)
(* (program_compiler.cpp:61-76, 175-206).                                  *)
NodesFormTree ==
    /\ \A p, q \in Pointers : Target(p) = Target(q) => p = q
    /\ \A k \in DOMAIN nodes :
          /\ nodes[k].child < k
          /\ nodes[k].next = 0 \/ nodes[k].next \in (k + 1)..Len(nodes)
          /\ nodes[k].kind \in {"If", "While"} => nodes[k].child # 0
    /\ outcome = "ok" => {Target(p) : p \in Pointers} = (DOMAIN nodes) \ {root}

(* compileProgram returns, for every sequence of tokens: its loops and the *)
(* recursion through nested statements end.                                *)
CompileReturns == <>(outcome # "compiling")
=============================================================================
