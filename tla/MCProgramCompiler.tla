----------------------------- MODULE MCProgramCompiler -----------------------------
(***************************************************************************)
(* ProgramCompiler on families of programs, right and wrong, checked       *)
(* against the grammar of ProgramGrammar.                                  *)
(***************************************************************************)
EXTENDS MCPrograms, ProgramContext

MCFunctions == RegisterAll(ContextFunctions)
MCVariables == << >>
MCOutOfRange == {"big"}
-----------------------------------------------------------------------------
(* Statements, and the parts of which those with statements in them are made.*)
Declared == <<"VAR", "n", "COLON", "integer", "SEMICOLON", "b", "COLON", "boolean", "SEMICOLON">>

AssignN == <<"n", "ASSIGN", "n", "PLUS", "1", "SEMICOLON">>
IfB == <<"IF", "LPAREN", "b", "RPAREN", "THEN">>
WhileB == <<"WHILE", "LPAREN", "b", "RPAREN", "DO">>
WriteNB == <<"WRITE", "LPAREN", "n", "COMMA", "LPAREN", "2", "RPAREN", "RPAREN", "SEMICOLON">>
ReadN == <<"READ", "LPAREN", "n", "RPAREN", "SEMICOLON">>

Bodies ==
    Chunks({AssignN, IfB, <<"ELSE">>, WhileB, WriteNB, ReadN, <<"BEGIN">>, <<"END">>}, 0..4)
    \cup Chunks({AssignN, IfB, <<"ELSE">>}, {5, 6})
    \cup Chunks({ReadN, IfB, <<"ELSE">>, <<"BEGIN">>, <<"END">>}, {5})

Nested == {Program(Declared, body) : body \in Bodies}

(* Declarations, and a statement that uses them. *)
DeclarationParts ==
    {<<"CONST">>, <<"VAR">>, <<"c", "COLON", "integer", "EQUAL", "1", "SEMICOLON">>,
     <<"c", "COLON", "double", "EQUAL", "1", "SEMICOLON">>,
     <<"d", "COLON", "double", "EQUAL", "1.5", "SEMICOLON">>,
     <<"d", "COLON", "integer", "EQUAL", "big", "SEMICOLON">>,
     <<"n", "COLON", "integer", "SEMICOLON">>,
     <<"n", "COMMA", "d", "COLON", "double", "SEMICOLON">>,
     <<"d", "COMMA", "d", "COLON", "double", "SEMICOLON">>,
     <<"abs", "COLON", "boolean", "SEMICOLON">>, <<"n", "COLON", "p", "SEMICOLON">>}

FewDeclarationParts ==
    {<<"CONST">>, <<"VAR">>, <<"c", "COLON", "integer", "EQUAL", "1", "SEMICOLON">>,
     <<"d", "COLON", "integer", "EQUAL", "big", "SEMICOLON">>,
     <<"n", "COLON", "integer", "SEMICOLON">>, <<"n", "COMMA", "d", "COLON", "double", "SEMICOLON">>}

Declaring ==
    {Program(declarations, <<"n", "ASSIGN", "c", "SEMICOLON">>) :
        declarations \in Chunks(DeclarationParts, 0..3) \cup Chunks(FewDeclarationParts, {4})}

(* A program with every statement, and each program that differs from it   *)
(* in one token: replaced, left out or repeated.                           *)
Sample ==
    Program(<<"CONST", "c", "COLON", "string", "EQUAL", "'s'", "SEMICOLON",
              "t", "COLON", "boolean", "EQUAL", "TRUE", "SEMICOLON",
              "VAR", "n", "COMMA", "m", "COLON", "integer", "SEMICOLON">>,
            <<"READ", "LPAREN", "n", "RPAREN", "SEMICOLON",
              "WHILE", "LPAREN", "n", "LESS", "2", "RPAREN", "DO", "BEGIN",
              "IF", "LPAREN", "t", "RPAREN", "THEN", "n", "ASSIGN", "abs", "LPAREN", "n", "RPAREN",
              "SEMICOLON",
              "ELSE", "WRITELN", "LPAREN", "c", "COMMA", "n", "RPAREN", "SEMICOLON", "END",
              "WRITE", "LPAREN", "1.5", "RPAREN", "SEMICOLON">>)

Replacements ==
    Toks(<<"n", "c", "t", "abs", "double", "1", "TRUE", "BEGIN", "END", "SEMICOLON", "COMMA",
           "LPAREN", "RPAREN", "IF", "ELSE", "VAR", "MINUS", "NOT">>)

Damaged ==
    LET last == Len(Sample) - 1
    IN  {Sample} \cup {RemoveAt(Sample, k) : k \in 1..last}
        \cup {InsertAt(Sample, k, Sample[k]) : k \in 1..last}
        \cup {ReplaceAt(Sample, k, t) : k \in 1..last, t \in Range(Replacements)}

(* The beginnings of the program, which end at any place. *)
Cut == {Append(SubSeq(Sample, 1, k), Tok("ENDOFFILE")) : k \in 0..(Len(Sample) - 1)}

MCInputs == Nested \cup Declaring \cup Damaged \cup Cut
-----------------------------------------------------------------------------
Grammar == INSTANCE ProgramGrammar

(* ")" with a value behind it, which the expression compiler lets through. *)
Juxtaposes == \E k \in 1..(Len(source) - 1) :
                /\ source[k].type = "RPAREN"
                /\ source[k + 1].type \in ValueTokens

(* The compiler accepts exactly the programs of the grammar, and the tree  *)
(* of execution nodes and the variable storage it makes are those of the   *)
(* one reading: statements in their order, an else with the innermost if   *)
(* that has none, names that are declared once and are no types or         *)
(* functions, constants that are never assigned to or read, assignments    *)
(* and conditions of the right type, and in the code of each expression    *)
(* the variables it names (program_compiler.cpp:8-209, 352-535).           *)
CompilesTheProgram ==
    outcome # "compiling" /\ ~Juxtaposes =>
        Grammar!Programs(source) =
            IF outcome = "ok" THEN {[storage |-> infos, main |-> StatementAt(root)]} ELSE {}
=============================================================================
