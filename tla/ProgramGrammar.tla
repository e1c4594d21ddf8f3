------------------------------ MODULE ProgramGrammar ------------------------------
(***************************************************************************)
(* What a program is, independently of how it is compiled: the grammar of  *)
(* the sections of README.md on declarations, blocks and statements as a   *)
(* recursive definition over intervals of the token sequence, with the     *)
(* types an assignment and a condition must have.                          *)
(* For model checking only: it is exponential and recursive.               *)
(***************************************************************************)
EXTENDS FunctionStorage, SequencesExt

CONSTANTS Functions, OutOfRange

Expressions(storage) == INSTANCE ExpressionGrammar WITH Variables <- storage

Literal == [INT |-> "integer", FLOAT |-> "double", STRING |-> "string",
            TRUE |-> "boolean", FALSE |-> "boolean"]

Entry(name, type, isConstant, value) ==
    [name |-> name, type |-> type, isConstant |-> isConstant, value |-> value]

(* A statement: the variable it sets, its expressions, the statements in   *)
(* it.  The second of the statements in an if is the one behind its else.  *)
Statement(kind, id, exprs, body) == [kind |-> kind, id |-> id, exprs |-> exprs, body |-> body]

(* The tokens from i on are of these types. *)
Shape(toks, i, shape) ==
    /\ i + Len(shape) - 1 <= Len(toks)
    /\ \A k \in DOMAIN shape : toks[i + k - 1].type = shape[k]
-----------------------------------------------------------------------------
ConstantRows(toks, i, j) ==
    {Entry(toks[i].value, toks[i + 2].value, TRUE, toks[i + 4].value) :
        type \in {t \in DOMAIN Literal :
            /\ j = i + 5
            /\ Shape(toks, i, <<"ID", "COLON", "ID", "EQUAL", t, "SEMICOLON">>)
            /\ Literal[t] = toks[i + 2].value
            /\ toks[i + 4].value \notin OutOfRange}}

VariableRows(toks, i, j) ==
    LET count == (j - i - 1) \div 2
    IN  {[k \in 1..count |-> Entry(toks[i + 2 * (k - 1)].value, toks[j - 1].value, FALSE, "")] :
            ok \in {ok \in {TRUE} :
                /\ count > 0 /\ j = i + 2 * count + 1
                /\ Shape(toks, j - 2, <<"COLON", "ID", "SEMICOLON">>)
                /\ toks[j - 1].value \in DataTypes
                /\ \A k \in i..(j - 3) :
                      toks[k].type = IF (k - i) % 2 = 0 THEN "ID" ELSE "COMMA"}}

Row(toks, i, j, section) ==
    IF section = "CONST" THEN {<<c>> : c \in ConstantRows(toks, i, j)} ELSE VariableRows(toks, i, j)

RECURSIVE Rows(_, _, _, _), Sections(_, _, _)

Rows(toks, i, j, section) ==
    Row(toks, i, j, section) \cup
    UNION {{first \o rest : first \in Row(toks, i, k, section), rest \in Rows(toks, k + 1, j, section)}
            : k \in {k \in i..(j - 1) : toks[k].type = "SEMICOLON"}}

Sections(toks, i, j) ==
    IF i > j THEN {<< >>}
    ELSE UNION {{rows \o rest : rows \in Rows(toks, i + 1, k, toks[i].type),
                                rest \in Sections(toks, k + 1, j)}
            : k \in {k \in i..j : toks[i].type \in {"CONST", "VAR"} /\ toks[k].type = "SEMICOLON"}}

(* No name is that of a type or a function, and none is declared twice. *)
Consistent(storage) ==
    \A k \in DOMAIN storage :
        /\ storage[k].name \notin DataTypes
        /\ ~IsFunctionName(Functions, storage[k].name)
        /\ \A l \in DOMAIN storage : storage[k].name = storage[l].name => k = l
-----------------------------------------------------------------------------
(* A program is given by its tokens, what it declares and where its main   *)
(* block begins.  The literals of the block are stored in their order.     *)

LiteralsIn(program, i, j) ==
    LET at == SetToSortSeq({k \in i..j : program.toks[k].type \in DOMAIN Literal}, <)
    IN  [k \in DOMAIN at |-> Entry("$", Literal[program.toks[at[k]].type], TRUE,
                                   program.toks[at[k]].value)]

Expression(program, i, j) ==
    LET storage == program.declared \o LiteralsIn(program, program.start, i - 1)
    IN  Expressions(storage)!Meaning(SubSeq(program.toks, i, j), 1, j - i + 1, 1)

Condition(program, i, j) == {e \in Expression(program, i, j) : e.type = "boolean"}

(* The variables, not constants, of a name. *)
Assignable(program, name) ==
    {id \in DOMAIN program.declared :
        program.declared[id].name = name /\ ~program.declared[id].isConstant}

(* An else would belong to an if at the end of the statement. *)
RECURSIVE EndsInIf(_)
EndsInIf(s) == \/ s.kind = "If" /\ Len(s.body) = 1
               \/ s.kind \in {"If", "While"} /\ EndsInIf(Last(s.body))

RECURSIVE Statements(_, _, _), StatementSequences(_, _, _), Arguments(_, _, _)

(* The readings of the tokens i to j as one statement. *)
Statements(program, i, j) ==
    LET toks == program.toks
        begins(shape) == i <= j /\ Shape(toks, i, shape)
        ends(type) == i <= j /\ toks[j].type = type
        thens == {k \in i..j : Shape(toks, k, <<"RPAREN", "THEN">>)}
        dos == {k \in i..j : Shape(toks, k, <<"RPAREN", "DO">>)}
        elses == {k \in i..j : toks[k].type = "ELSE"}
        write(type, kind) ==
            IF begins(<<type, "LPAREN">>) /\ ends("SEMICOLON") /\ toks[j - 1].type = "RPAREN"
            THEN {Statement(kind, 0, args, << >>) : args \in Arguments(program, i + 2, j - 2)}
            ELSE {}
    IN  (IF begins(<<"BEGIN">>) /\ ends("END")
         THEN {Statement("Block", 0, << >>, body) : body \in StatementSequences(program, i + 1, j - 1)}
         ELSE {})
        \cup
        (IF j = i + 4 /\ begins(<<"READ", "LPAREN", "ID", "RPAREN", "SEMICOLON">>)
         THEN {Statement("Read", id, << >>, << >>) : id \in Assignable(program, toks[i + 2].value)}
         ELSE {})
        \cup write("WRITE", "Write") \cup write("WRITELN", "WriteLn") \cup
        (IF begins(<<"ID", "ASSIGN">>) /\ ends("SEMICOLON")
         THEN UNION {{Statement("Assign", id, <<e>>, << >>) :
                        e \in {e \in Expression(program, i + 2, j - 1) :
                                e.type = program.declared[id].type}}
                     : id \in Assignable(program, toks[i].value)}
         ELSE {})
        \cup
        (IF begins(<<"IF", "LPAREN">>)
         THEN UNION {UNION {
                {Statement("If", 0, <<c>>, <<s>>) : s \in Statements(program, k + 2, j)} \cup
                UNION {{Statement("If", 0, <<c>>, <<s, e>>) :
                            s \in {s \in Statements(program, k + 2, l - 1) : ~EndsInIf(s)},
                            e \in Statements(program, l + 1, j)} : l \in elses}
                : c \in Condition(program, i + 2, k - 1)} : k \in thens}
         ELSE {})
        \cup
        (IF begins(<<"WHILE", "LPAREN">>)
         THEN UNION {{Statement("While", 0, <<c>>, <<s>>) :
                        c \in Condition(program, i + 2, k - 1), s \in Statements(program, k + 2, j)}
                     : k \in dos}
         ELSE {})

StatementSequences(program, i, j) ==
    IF i > j THEN {<< >>}
    ELSE UNION {{<<first>> \o rest : first \in Statements(program, i, k),
                                     rest \in StatementSequences(program, k + 1, j)}
            : k \in {k \in i..j : program.toks[k].type \in {"SEMICOLON", "END"}}}

Arguments(program, i, j) ==
    {<<e>> : e \in Expression(program, i, j)} \cup
    UNION {{<<e>> \o rest : e \in Expression(program, i, k - 1), rest \in Arguments(program, k + 1, j)}
            : k \in {k \in i..j : program.toks[k].type = "COMMA"}}

(* The programs that a sequence of tokens can be read as.  What follows    *)
(* the dot does not matter.                                                *)
Programs(toks) ==
    IF ~Shape(toks, 1, <<"PROGRAM", "ID", "SEMICOLON">>) THEN {}
    ELSE UNION {UNION {
            LET program == [toks |-> toks, declared |-> declared, start |-> b]
            IN  {[storage |-> declared \o LiteralsIn(program, b, e), main |-> s] :
                    s \in Statements(program, b, e)}
            : declared \in {decl \in Sections(toks, 4, b - 1) : Consistent(decl)}}
            : b \in {b \in DOMAIN toks : toks[b].type = "BEGIN"},
              e \in {e \in DOMAIN toks : Shape(toks, e, <<"END", "DOT">>)}}
=============================================================================
