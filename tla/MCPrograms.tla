-------------------------------- MODULE MCPrograms --------------------------------
(***************************************************************************)
(* Programs for model checking: written as sequences of words, and read    *)
(* back from the execution nodes that ProgramCompiler has made, as the     *)
(* statements and expressions of ProgramGrammar.                           *)
(***************************************************************************)
EXTENDS ProgramCompiler

Token(t, v) == [type |-> t, value |-> v]

(* Keywords and punctuation are written as the names of their types. *)
Tok(x) == IF x \in TokenTypes THEN Token(x, x)
          ELSE IF x \in {"1", "2", "big"} THEN Token("INT", x)
          ELSE IF x = "1.5" THEN Token("FLOAT", x)
          ELSE IF x = "'s'" THEN Token("STRING", x)
          ELSE Token("ID", x)
Toks(seq) == [k \in DOMAIN seq |-> Tok(seq[k])]

Chunks(alphabet, lengths) == UNION {{FlattenSeq(c) : c \in [1..n -> alphabet]} : n \in lengths}

Program(declarations, body) ==
    Toks(<<"PROGRAM", "p", "SEMICOLON">> \o declarations \o <<"BEGIN">> \o body
            \o <<"END", "DOT", "ENDOFFILE">>)
-----------------------------------------------------------------------------
(* The function of an operation of the interpreter.                        *)
Signatures ==
    LET functions == Functions.functions
        positions(id) == {k \in DOMAIN functions : functions[k].id = id}
    IN  [id \in {functions[k].id : k \in DOMAIN functions} |-> functions[Min(positions(id))]]

(* Op(x), for which TLC evaluates x once.                                  *)
With(x, Op(_)) == CHOOSE y \in {Op(z) : z \in {x}} : TRUE

Leaf(id) == [type |-> infos[id].type, op |-> <<"LOAD", id>>, children |-> << >>]

(* The operands of a function are replaced by its call.                    *)
Applied(func, operands) ==
    LET left == Len(operands) - Len(func.args)
    IN  Append(SubSeq(operands, 1, left),
               [type |-> func.ret, op |-> <<"CALL", func.id>>,
                children |-> SubSeq(operands, left + 1, Len(operands))])

(* The tree of an expression whose operations are the given ones.          *)
ExpressionOf(operations) ==
    LET after[k \in 0..Len(operations)] ==
            IF k = 0 THEN << >>
            ELSE IF operations[k].op = "LOAD" THEN Append(after[k - 1], Leaf(operations[k].id))
            ELSE With(after[k - 1], LAMBDA operands : Applied(Signatures[operations[k].func], operands))
    IN  Last(after[Len(operations)])

(* The statement that a node and those below it execute, and the sequence  *)
(* of those of a chain of siblings.                                        *)
Reading ==
    LET reading[n \in 0..Len(nodes), chain \in BOOLEAN] ==
            IF n = 0 THEN << >>
            ELSE IF chain THEN <<reading[n, FALSE]>> \o reading[nodes[n].next, TRUE]
            ELSE [kind |-> nodes[n].kind, id |-> nodes[n].id,
                  exprs |-> [k \in DOMAIN nodes[n].programs |-> ExpressionOf(nodes[n].programs[k])],
                  body |-> reading[nodes[n].child, TRUE]]
    IN  reading

StatementAt(n) == Reading[n, FALSE]
StatementsFrom(n) == Reading[n, TRUE]
=============================================================================
