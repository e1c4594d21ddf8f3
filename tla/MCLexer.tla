--------------------------------- MODULE MCLexer ---------------------------------
(***************************************************************************)
(* Lexer on every short text over characters of each kind, and on longer   *)
(* ones over those of numbers, strings and words.                          *)
(***************************************************************************)
EXTENDS Lexer

MCSpaces == {" "}
MCDigits == {"1", "2"}
MCLetters == {"d", "o", "n"}
MCKeywords == <<"d", "o">> :> "DO" @@ <<"n", "o", "d">> :> "NOT"
MCEscapes == "n" :> "newline"

Upto(n, alphabet) == UNION {[1..k -> alphabet] : k \in 0..n}

MCTexts ==
    Upto(4, {" ", "1", "d", "o", "_", ".", ":", "=", "<", ">", Quote, Backslash, "#"})
    \cup Upto(6, {"1", ".", " "})
    \cup Upto(6, {Quote, Backslash, "n", " "})
    \cup Upto(6, {"n", "o", "d", "1"})
-----------------------------------------------------------------------------
(* The constructor returns for every text. *)
LexingEnds == <>(pc = "done")
=============================================================================
