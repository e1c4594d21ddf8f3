---------------------------------- MODULE Lexer ----------------------------------
(***************************************************************************)
(* Lexer::Lexer (src/lexer/lexer.cpp, include/lexer/lexer.h): the loop of  *)
(* generateTokens, one action per iteration of it or of a loop in it, and  *)
(* the calls made of the lexer afterwards.  Characters are strings of one  *)
(* character; positions count from 0, as in the code.                      *)
(***************************************************************************)
EXTENDS Naturals, SequencesExt

CONSTANTS Texts,        \* the texts that are lexed
          Spaces, Digits, Letters,  \* isspace, isdigit, isalpha
          Keywords,     \* the token type of each word that is a keyword
          Escapes       \* what a character stands for behind a backslash

Quote == "'"
Backslash == "\\"

SpecialSymbols ==
    [c \in {"+", "-", "*", ".", ",", ";", ":", "(", ")", "/", "=", "<", ">"} |->
        CASE c = "+" -> "PLUS"   [] c = "-" -> "MINUS"     [] c = "*" -> "MULT"
          [] c = "." -> "DOT"    [] c = "," -> "COMMA"     [] c = ";" -> "SEMICOLON"
          [] c = ":" -> "COLON"  [] c = "(" -> "LPAREN"    [] c = ")" -> "RPAREN"
          [] c = "/" -> "DIV"    [] c = "=" -> "EQUAL"     [] c = "<" -> "LESS"
          [] c = ">" -> "GREATER"]

CompositeSpecialSymbols ==
    [s \in {<<":", "=">>, <<"<", "=">>, <<">", "=">>, <<"<", ">">>} |->
        CASE s = <<":", "=">> -> "ASSIGN"       [] s = <<"<", "=">> -> "LESSEQUAL"
          [] s = <<">", "=">> -> "GREATEREQUAL" [] s = <<"<", ">">> -> "NOTEQUAL"]

WordStarts == Letters \cup {"_"}
WordChars == WordStarts \cup Digits

(* All operators, by their characters. *)
Symbols ==
    [s \in {<<c>> : c \in DOMAIN SpecialSymbols} \cup DOMAIN CompositeSpecialSymbols |->
        IF Len(s) = 1 THEN SpecialSymbols[s[1]] ELSE CompositeSpecialSymbols[s]]

(* Each branch of the loop is for characters of its own. *)
ASSUME LexerAssumption ==
    LET classes == <<Spaces, DOMAIN SpecialSymbols, Digits, {Quote}, WordStarts>>
    IN  \A k, l \in DOMAIN classes : k # l => classes[k] \cap classes[l] = {}

ASSUME TextsAssumption == \A t \in Texts : t \in Seq(STRING)

(* Keywords are words.                                                     *)
ASSUME KeywordsAssumption ==
    \A w \in DOMAIN Keywords :
        /\ w \in Seq(WordChars) /\ w # << >> /\ w[1] \in WordStarts
        /\ Keywords[w] \notin {"ENDOFFILE", "INVALID"}

VARIABLES text, index, tokens,
          pc,       \* "token", the loop that runs in it, or "done"
          start, value, dots, escaped,
          pos

scan == <<start, value, dots, escaped>>
lexerVars == <<text, index, tokens, pc, scan, pos>>

LexerInit ==
    /\ text \in Texts
    /\ index = 0
    /\ tokens = << >>
    /\ pc = "token"
    /\ start = 0 /\ value = << >> /\ dots = 0 /\ escaped = FALSE
    /\ pos = 0
-----------------------------------------------------------------------------
Within == index < Len(text)

Char == text[index + 1]

At(place) == pc = place /\ Within

(* A token behind which the loop goes on, unless it is one of the last two *)
(* types.                                                                  *)
Emit(type, val, from, to) ==
    /\ tokens' = Append(tokens, [type |-> type, value |-> val, start |-> from, end |-> to])
    /\ pc' = IF type \in {"ENDOFFILE", "INVALID"} THEN "done" ELSE "token"

Push(c) == value' = Append(value, c) /\ index' = index + 1

SkipSpace ==
    /\ At("token") /\ Char \in Spaces
    /\ index' = index + 1
    /\ UNCHANGED <<text, tokens, pc, scan, pos>>

EndOfText ==
    /\ pc = "token" /\ ~Within
    /\ Emit("ENDOFFILE", << >>, index, index)
    /\ UNCHANGED <<text, index, scan, pos>>

TwoChars == IF index + 1 < Len(text) THEN SubSeq(text, index + 1, index + 2) ELSE << >>

CompositeSymbol ==
    /\ At("token") /\ Char \in DOMAIN SpecialSymbols
    /\ TwoChars \in DOMAIN CompositeSpecialSymbols
    /\ Emit(CompositeSpecialSymbols[TwoChars], TwoChars, index, index + 2)
    /\ index' = index + 2
    /\ UNCHANGED <<text, scan, pos>>

SpecialSymbol ==
    /\ At("token") /\ Char \in DOMAIN SpecialSymbols
    /\ TwoChars \notin DOMAIN CompositeSpecialSymbols
    /\ Emit(SpecialSymbols[Char], <<Char>>, index, index + 1)
    /\ index' = index + 1
    /\ UNCHANGED <<text, scan, pos>>

BeginNumber ==
    /\ At("token") /\ Char \in Digits
    /\ value' = << >> /\ dots' = 0
    /\ pc' = "number"
    /\ UNCHANGED <<text, index, tokens, start, escaped, pos>>

InNumber == At("number") /\ Char \in Digits \cup {"."} /\ dots < 2

NumberChar ==
    /\ InNumber
    /\ Push(Char)
    /\ dots' = IF Char = "." THEN dots + 1 ELSE dots
    /\ UNCHANGED <<text, tokens, pc, start, escaped, pos>>

NumberType ==
    CASE dots = 0 -> "INT"
      [] dots = 1 /\ Last(value) # "." -> "FLOAT"
      [] OTHER -> "INVALID"

EndNumber ==
    /\ pc = "number" /\ ~InNumber
    /\ Emit(NumberType, value, index - Len(value), index)
    /\ UNCHANGED <<text, index, scan, pos>>

BeginString ==
    /\ At("token") /\ Char = Quote
    /\ start' = index
    /\ value' = <<Char>> /\ index' = index + 1
    /\ escaped' = FALSE
    /\ pc' = "string"
    /\ UNCHANGED <<text, tokens, dots, pos>>

EscapedChar ==
    /\ At("string") /\ escaped
    /\ Push(IF Char \in DOMAIN Escapes THEN Escapes[Char] ELSE Char)
    /\ escaped' = FALSE
    /\ UNCHANGED <<text, tokens, pc, start, dots, pos>>

EscapeSymbol ==
    /\ At("string") /\ ~escaped /\ Char = Backslash
    /\ escaped' = TRUE
    /\ index' = index + 1
    /\ UNCHANGED <<text, tokens, pc, start, value, dots, pos>>

StringChar ==
    /\ At("string") /\ ~escaped /\ Char \notin {Backslash, Quote}
    /\ Push(Char)
    /\ UNCHANGED <<text, tokens, pc, start, dots, escaped, pos>>

(* Mutant: the start is found as for numbers and words. *)
StringStartFromItsLength == index + 1 - Len(value')

StringStart == start

CloseString ==
    /\ At("string") /\ ~escaped /\ Char = Quote
    /\ Push(Char)
    /\ Emit("STRING", value', StringStart, index + 1)
    /\ UNCHANGED <<text, start, dots, escaped, pos>>

UnterminatedString ==
    /\ pc = "string" /\ ~Within
    /\ Emit("INVALID", value, start, index)
    /\ UNCHANGED <<text, index, scan, pos>>

BeginWord ==
    /\ At("token") /\ Char \in WordStarts
    /\ value' = << >>
    /\ pc' = "word"
    /\ UNCHANGED <<text, index, tokens, start, dots, escaped, pos>>

InWord == At("word") /\ Char \in WordChars

(* Mutant: the loop over the characters of a word does not move on. *)
WordCharStays == InWord /\ UNCHANGED lexerVars

WordChar ==
    /\ InWord
    /\ Push(Char)
    /\ UNCHANGED <<text, tokens, pc, start, dots, escaped, pos>>

EndWord ==
    /\ pc = "word" /\ ~InWord
    /\ Emit(IF value \in DOMAIN Keywords THEN Keywords[value] ELSE "ID",
            value, index - Len(value), index)
    /\ UNCHANGED <<text, index, scan, pos>>

InvalidChar ==
    /\ At("token")
    /\ Char \notin Spaces \cup DOMAIN SpecialSymbols \cup Digits \cup {Quote} \cup WordStarts
    /\ Emit("INVALID", <<Char>>, index, index + 1)
    /\ UNCHANGED <<text, index, scan, pos>>

GenerateTokens ==
    \/ SkipSpace \/ EndOfText \/ CompositeSymbol \/ SpecialSymbol
    \/ BeginNumber \/ NumberChar \/ EndNumber
    \/ BeginString \/ EscapedChar \/ EscapeSymbol \/ StringChar \/ CloseString \/ UnterminatedString
    \/ BeginWord \/ WordChar \/ EndWord
    \/ InvalidChar
-----------------------------------------------------------------------------
HasError == Last(tokens).type = "INVALID"

(* Mutant: the position moves on from the last token, too. *)
NextTokenPastTheEnd ==
    /\ pc = "done"
    /\ pos' = pos + 1
    /\ UNCHANGED <<text, index, tokens, pc, scan>>

NextToken ==
    /\ pc = "done"
    /\ pos' = IF pos < Len(tokens) - 1 THEN pos + 1 ELSE pos
    /\ UNCHANGED <<text, index, tokens, pc, scan>>

(* A position behind the tokens is refused with an exception.  What seek   *)
(* returns, which it does not say, is left out.                            *)
Seek(p) ==
    /\ pc = "done"
    /\ pos' = IF p >= Len(tokens) THEN pos ELSE p
    /\ UNCHANGED <<text, index, tokens, pc, scan>>

LexerNext ==
    \/ GenerateTokens
    \/ NextToken
    \/ \E p \in 0..Len(tokens) : Seek(p)

(* The constructor runs to its end before anything else is called. *)
LexerSpec == LexerInit /\ [][LexerNext]_lexerVars /\ WF_lexerVars(GenerateTokens)
-----------------------------------------------------------------------------
LexerTypeOK ==
    /\ index \in 0..Len(text)
    /\ \A k \in DOMAIN tokens : tokens[k].start \in 0..Len(text) /\ tokens[k].end \in 0..Len(text)
    /\ pc \in {"token", "number", "string", "word", "done"}
    /\ start \in 0..index /\ dots \in 0..2 /\ escaped \in BOOLEAN
    /\ Len(value) <= index
    /\ pc = "done" => pos \in 0..(Len(tokens) - 1)

Grammar == INSTANCE LexerGrammar

(* The lexer finds the longest lexemes one behind the other, with the      *)
(* places and values they have in the text, leaves out nothing but spaces, *)
(* and stops at the first place where none begins: what the compiler       *)
(* reports as the place of an error is the place of that token             *)
(* (lexer.cpp:64-200).                                                     *)
FindsTheTokens ==
    /\ Grammar!AreTokens(text, tokens)
    /\ pc = "done" => tokens # << >> /\ Last(tokens).type \in {"ENDOFFILE", "INVALID"}
=============================================================================
