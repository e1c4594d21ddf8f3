-------------------------------- MODULE MCProgram --------------------------------
(***************************************************************************)
(* Program on programs with every statement, checked against ProgramSpec.  *)
(***************************************************************************)
EXTENDS Program, MCPrograms, ProgramContext, MCNumbers

MCFunctions == RegisterAll(ContextFunctions)
MCVariables == << >>
MCOutOfRange == {"big"}
MCEmptyString == << >>

(* What >> makes of the words the user enters. *)
Got(value, fails, rest) == [value |-> value, failed |-> fails, rest |-> rest]

MCExtract(type, word) ==
    CASE type = "string" -> Got(<<word>>, FALSE, << >>)
      [] type = "integer" -> (CASE word = "2" -> Got(2, FALSE, << >>)
                                [] word = "1.5" -> Got(1, FALSE, <<".5">>)
                                [] word = "big" -> Got(MCIntMax, TRUE, << >>)
                                [] OTHER -> Got(0, TRUE, << >>))
      [] type = "double" -> (CASE word = "2" -> Got(4, FALSE, << >>)
                               [] word = "1.5" -> Got(3, FALSE, << >>)
                               [] word = ".5" -> Got(1, FALSE, << >>)
                               [] word = "big" -> Got(Infinity, TRUE, << >>)
                               [] OTHER -> Got(0, TRUE, << >>))
      [] type = "boolean" -> (CASE word \in {"2", "big"} -> Got(TRUE, TRUE, << >>)
                                [] word = "1.5" -> Got(TRUE, FALSE, <<".5">>)
                                [] OTHER -> Got(FALSE, TRUE, << >>))

MCWords == {<<"2", "x">>, <<"1.5", "big">>, << >>}
-----------------------------------------------------------------------------
Declared == <<"CONST", "c", "COLON", "integer", "EQUAL", "1", "SEMICOLON",
              "VAR", "n", "COLON", "integer", "SEMICOLON", "b", "COLON", "boolean", "SEMICOLON",
              "s", "COLON", "string", "SEMICOLON">>

ReadOf(v) == <<"READ", "LPAREN", v, "RPAREN", "SEMICOLON">>
WriteRatio == <<"WRITE", "LPAREN", "n", "COMMA", "2", "DIVINT", "n", "COMMA", "b",
                "RPAREN", "SEMICOLON">>
WriteLine == <<"WRITELN", "LPAREN", "s", "PLUS", "'s'", "RPAREN", "SEMICOLON">>
Increment == <<"n", "ASSIGN", "n", "PLUS", "c", "SEMICOLON">>
Compare == <<"b", "ASSIGN", "n", "LESS", "1", "SEMICOLON">>
Halve == <<"n", "ASSIGN", "n", "DIV", "2", "SEMICOLON">>
IfB == <<"IF", "LPAREN", "b", "RPAREN", "THEN">>
WhileLess == <<"WHILE", "LPAREN", "n", "LESS", "2", "RPAREN", "DO">>

Simple == {ReadOf("n"), ReadOf("s"), WriteRatio, Increment, Compare}

(* Short programs of any statements, loops over pairs of statements, and   *)
(* conditions with and without an else in each other.                      *)
Bodies ==
    Chunks(Simple \cup {ReadOf("b"), ReadOf("c"), WriteLine, Halve, IfB, <<"ELSE">>, WhileLess}, 0..2)
    \cup Chunks({ReadOf("n"), WriteRatio, WriteLine, Increment, Compare, IfB, <<"ELSE">>, WhileLess}, {3})
    \cup {x \o WhileLess \o <<"BEGIN">> \o y \o Increment \o <<"END">> \o WriteRatio :
            x \in Simple, y \in Simple}
    \cup {x \o IfB \o WhileLess \o Increment \o <<"ELSE">> \o y \o z :
            x \in {Compare, << >>}, y \in Simple, z \in Simple}
    \cup {x \o IfB \o IfB \o y \o <<"ELSE">> \o z :
            x \in {ReadOf("b"), Compare}, y \in Simple, z \in Simple}

HasLoop == \E k \in DOMAIN source : source[k].type = "WHILE"

(* The bound on the output of programs with loops, which need not end; the *)
(* others write less than the second bound.                                *)
MaxOutput == 6
ShortOutput == Len(output) <= IF HasLoop THEN MaxOutput ELSE 12

MCInputs == {Program(Declared, body) : body \in Bodies}
-----------------------------------------------------------------------------
(* An auxiliary variable: the statements of the execution nodes, read back *)
(* once, when the execution begins.                                        *)
VARIABLE text

MCInit == SystemInit /\ text = << >>

MCNext ==
    /\ SystemNext
    /\ text' = IF stage # stage' /\ stage' = "executing" THEN Reading ELSE text

MCSpec == MCInit /\ [][MCNext]_<<systemVars, text>>

MCFairSpec == MCSpec /\ WF_systemVars(SystemStep)

(* What is left to do, as statements: the frames are the calls that have   *)
(* not returned.  A write is left with the arguments that are not printed. *)
LeftOf(frame) ==
    IF frame.call = "siblings" THEN text[frame.node, TRUE]
    ELSE <<[text[frame.node, FALSE] EXCEPT !.exprs = SubSeq(@, frame.arg, Len(@))]>>

Todo ==
    LET from[k \in 1..(Len(frames) + 1)] ==
            IF k > Len(frames) THEN << >> ELSE LeftOf(frames[k]) \o from[k + 1]
    IN  from[1]

State == CASE stage = "syntax error reported" -> "rejected"
           [] stage = "compiling" -> "given"
           [] execution = "executing" -> "running"
           [] execution = "done" -> "finished"
           [] OTHER -> execution

Promise == INSTANCE ProgramSpec WITH state <- State, todo <- Todo

(* The application does with a program what README.md says of its text: it *)
(* rejects it without executing any of it, or executes its statements in   *)
(* their order, each with the values its variables have by then, prints    *)
(* the arguments of a write up to the first that divides by zero, and ends *)
(* with an error where an expression has one (program_compiler.cpp:8-209,  *)
(* execution_node.cpp:4-124, compiler_app/main.cpp:24-62).                 *)
ExecutesTheText == Promise!Spec

(* A program without a loop comes to an end, whatever is entered.          *)
ProgramEnds == HasLoop \/ <>(stage \notin {"compiling", "executing"})
=============================================================================
